---- MODULE Spec2Model ----
(***************************************************************************)
(* State-machine model of the AI provider orchestrator                     *)
(* (ai_provider_orchestrator.py) and of the provider comparison fan-out    *)
(* (web_interface.py, compare_providers).                                  *)
(*                                                                         *)
(* Coroutines are modelled as tasks.  A task runs atomically from one      *)
(* suspension point (an await that really yields: a network wait, the      *)
(* executor-offloaded readline, asyncio.sleep) to the next.  The child     *)
(* processes, the HTTP servers, the probes and the clock are the           *)
(* environment and are nondeterministic.                                   *)
(***************************************************************************)
EXTENDS Integers, Sequences, FiniteSets, TLC

VARIABLES
    providers,  \* AIProviderOrchestrator.providers : name -> provider_type
    objs,       \* every AISession object created so far : session_id -> record
    sessions,   \* keys of AIProviderOrchestrator.sessions (values are objs[id])
    nextId,     \* number of session ids generated so far, plus one (uuid4 never repeats)
    proc,       \* child process of a subprocess session : session_id -> record
    tasks,      \* coroutines : task id -> record (position, arguments, result)
    now,        \* time.time()
    pipe,       \* compare_providers: per get_provider_response coroutine, its stage
    cmp,        \* compare_providers: the request handler itself
    calls,      \* history: the send_message calls that returned, in order of return
    config,     \* the configuration source (ai_providers.json) and the last load's outcome
    sweep       \* stop_all_sessions: the ids still to visit and the count so far

vars == <<providers, objs, sessions, nextId, proc, tasks, now, pipe, cmp, calls,
          config, sweep>>

-----------------------------------------------------------------------------
(* Bounds of the exploration *)

MaxSessions == 1    \* session objects a direct caller creates
MaxClock == 2       \* largest value of the clock
MaxSends == 2       \* a send is issued only while the log holds fewer exchanges
MaxQueue == 2       \* lines buffered in a child's stdin / stdout pipe
MaxLeaked == 1      \* abandoned reader threads per child
MaxBatch == 3       \* sessions the interactive mode starts before it stops them all
MaxRecords == 3     \* records in a configuration source

-----------------------------------------------------------------------------
(* Data *)

\* ProviderType values
GEMINI_CLI == "gemini-cli"
OLLAMA == "ollama"
GITHUB_COPILOT == "github-copilot"
OPENAI_COMPATIBLE == "openai-compatible"

\* SessionStatus values
INACTIVE == "inactive"
STARTING == "starting"
ACTIVE == "active"
ERROR == "error"
TERMINATING == "terminating"

SessionStatus == {INACTIVE, STARTING, ACTIVE, ERROR, TERMINATING}

\* The four providers of the default configuration, registered by name, each
\* created by _create_provider from a config whose provider_type is the
\* ProviderType member (the declared type of ProviderConfig.provider_type).
DefaultRegistry ==
    [n \in {"gemini", "ollama", "copilot", "qwen"} |->
        CASE n = "gemini" -> GEMINI_CLI
          [] n = "ollama" -> OLLAMA
          [] n = "copilot" -> GITHUB_COPILOT
          [] n = "qwen" -> OPENAI_COMPATIBLE]

\* The model configured for a provider (ProviderConfig.model)
ModelOf(name) ==
    CASE name = "gemini" -> "gemini-pro"
      [] name = "ollama" -> "llama2"
      [] name = "qwen" -> "qwen-coder"
      [] name = "ollama-off" -> "llama2"
      [] OTHER -> "None"

\* Providers built from configs that leave an optional field out (every
\* field but name and provider_type defaults to None and nothing checks it):
\* an Ollama provider without a model, one without an endpoint, and a
\* Gemini provider without a command.
BareRegistry ==
    [n \in {"ollama-bare", "ollama-off", "gemini-off"} |->
        CASE n = "ollama-bare" -> OLLAMA
          [] n = "ollama-off" -> OLLAMA
          [] n = "gemini-off" -> GEMINI_CLI]

\* The command configured for a provider (ProviderConfig.command)
CommandOf(name) ==
    CASE name = "gemini" -> "gemini"
      [] name = "copilot" -> "copilot"
      [] OTHER -> "None"

\* The endpoint configured for a provider (ProviderConfig.api_endpoint)
EndpointOf(name) ==
    CASE name = "ollama" -> "http://localhost:11434"
      [] name = "ollama-bare" -> "http://localhost:11434"
      [] name = "qwen" -> "http://localhost:8000/v1"
      [] OTHER -> "None"

\* provider_map of _create_provider: which class serves a provider type.
\* GeminiCLIProvider and GitHubCopilotProvider talk to a subprocess,
\* OllamaProvider and OpenAICompatibleProvider to an HTTP API.
IsSubprocess(ptype) == ptype \in {GEMINI_CLI, GITHUB_COPILOT}

\* A name no provider is registered under, and an id no session ever had.
NoSuchName == "nosuch"
NoSuchSid == "bogus"
ProviderNames == DOMAIN DefaultRegistry \cup {NoSuchName}
Messages == {"hi", "yo"}

\* str(uuid.uuid4()): the n-th generated id; ids never repeat.
Digits == "0123456789"
RECURSIVE ToStr(_)
ToStr(n) == IF n < 10 THEN SubSeq(Digits, n + 1, n + 1)
            ELSE ToStr(n \div 10) \o SubSeq(Digits, (n % 10) + 1, (n % 10) + 1)
SidOf(n) == "s" \o ToStr(n)

\* str.strip(): remove leading and trailing whitespace
Whitespace == {" ", "\n", "\t", "\r"}
RECURSIVE LStrip(_)
LStrip(s) == IF Len(s) > 0 /\ SubSeq(s, 1, 1) \in Whitespace
             THEN LStrip(SubSeq(s, 2, Len(s))) ELSE s
RECURSIVE RStrip(_)
RStrip(s) == IF Len(s) > 0 /\ SubSeq(s, Len(s), Len(s)) \in Whitespace
             THEN RStrip(SubSeq(s, 1, Len(s) - 1)) ELSE s
Strip(s) == RStrip(LStrip(s))

\* Outcome of a call: nothing yet, a returned value, or a raised exception.
\* Values are rendered as strings (a bool as "True"/"False").
NoResult == [kind |-> "none", exc |-> "", val |-> ""]
Return(v) == [kind |-> "return", exc |-> "", val |-> v]
Raise(e, m) == [kind |-> "raise", exc |-> e, val |-> m]

\* AISession(session_id, provider_config, status) with the dataclass defaults
AISession(name, status) ==
    [provider |-> name, status |-> status, process |-> FALSE,
     created_at |-> now, last_activity |-> now, conversation_history |-> <<>>]

\* subprocess.Popen(cmd, stdin=PIPE, stdout=PIPE, stderr=PIPE): a running
\* child, the lines waiting in its stdin and stdout pipes, the executor
\* threads left blocked in readline on its stdout, and the last signal that
\* terminate() or kill() sent to it.
Popen == [alive |-> TRUE, inq |-> <<>>, outq |-> <<>>, leaked |-> 0, signal |-> "none"]

\* The response to the GET of an HTTP provider's start check: its status
\* (0 when the request ended in an exception instead) and, for the Ollama
\* catalog of /api/tags, the model names it lists.
CheckResponse(status, models) == [status |-> status, models |-> models]
NoCheck == CheckResponse(-1, {})
CheckResponses ==
    { CheckResponse(0, {}), CheckResponse(500, {}),
      CheckResponse(200, {"llama2"}), CheckResponse(200, {"mistral"}) }

\* A coroutine of the orchestrator API that has been created but not run.
NewCall(op, name, sid, msg) ==
    [pc |-> "call", op |-> op, name |-> name, sid |-> sid, msg |-> msg,
     t0 |-> now, ptype |-> "", probe |-> "none", check |-> NoCheck, result |-> NoResult]

IdleTask == [pc |-> "idle", op |-> "none", name |-> "", sid |-> "", msg |-> "",
             t0 |-> 0, ptype |-> "", probe |-> "none", check |-> NoCheck, result |-> NoResult]

\* The coroutine of task t finishes with result r.
Finish(t, r) == tasks' = [tasks EXCEPT ![t].pc = "idle", ![t].result = r]

\* The same, for start_session: what is_available() answered is noted.
FinishProbed(t, r, answer) ==
    tasks' = [tasks EXCEPT ![t].pc = "idle", ![t].result = r, ![t].probe = answer]

\* raise ValueError(f"Provider not found: {provider_name}")
ProviderNotFound(name) == Raise("ValueError", "Provider not found: " \o name)

\* raise RuntimeError(f"Provider not available: {provider_name}")
ProviderNotAvailable(name) == Raise("RuntimeError", "Provider not available: " \o name)

\* Mutation of SessionNotFound: the lookup is self.sessions[session_id]
SessionNotFound_KeyError(sid) == Raise("KeyError", sid)

\* raise ValueError(f"Session not found: {session_id}")
SessionNotFound(sid) == Raise("ValueError", "Session not found: " \o sid)

\* Mutation of StopUnknownSession: the unknown id is reported by raising
StopUnknownSession_Raises(sid) == Raise("ValueError", "Session not found: " \o sid)

\* stop_session of a session id that is not registered: return False
StopUnknownSession(sid) == Return("False")

-----------------------------------------------------------------------------
(* Provider configuration: ProviderConfig, _create_provider, _load_providers *)

\* Python's None, and a key that a configuration record does not have
None == "None"
Absent == "<absent>"

\* The remaining ProviderType values
QWEN_CODE == "qwen-code"
CUSTOM == "custom"

\* The ProviderType member whose value is v.  ProviderType is a plain Enum:
\* a member neither equals nor hashes like its value, so Member(v) # v.
Member(v) == "ProviderType." \o v

\* provider_map of _create_provider: keyed by ProviderType members.  A
\* provider class is named here by the provider type it serves.
provider_map ==
    [m \in {Member(GEMINI_CLI), Member(OLLAMA), Member(GITHUB_COPILOT),
            Member(OPENAI_COMPATIBLE)} |->
        CASE m = Member(GEMINI_CLI) -> GEMINI_CLI
          [] m = Member(OLLAMA) -> OLLAMA
          [] m = Member(GITHUB_COPILOT) -> GITHUB_COPILOT
          [] m = Member(OPENAI_COMPATIBLE) -> OPENAI_COMPATIBLE]

\* One record of a configuration: the keys the model follows.  extra says
\* whether the record carries a key that ProviderConfig does not declare.
ConfigEntry(name, ptype, command, endpoint) ==
    [name |-> name, provider_type |-> ptype, command |-> command,
     api_endpoint |-> endpoint, extra |-> FALSE]

\* ProviderConfig(**config_data): the generated __init__ raises TypeError
\* for a missing name or provider_type and for an undeclared key; it checks
\* nothing else.  "" when the construction succeeds.
ProviderConfigError(entry) ==
    IF entry.name = Absent \/ entry.provider_type = Absent
    THEN "__init__() missing required positional argument"
    ELSE IF entry.extra
    THEN "__init__() got an unexpected keyword argument"
    ELSE ""

\* The ProviderConfig built from a record: absent optional keys default to None.
ProviderConfig(entry) ==
    [name |-> entry.name, provider_type |-> entry.provider_type,
     command |-> IF entry.command = Absent THEN None ELSE entry.command,
     api_endpoint |-> IF entry.api_endpoint = Absent THEN None ELSE entry.api_endpoint]

\* _create_provider(config): provider_map.get(config.provider_type), then
\* ValueError when nothing was found, else the class instantiated.
CreateProvider(cfg) ==
    IF cfg.provider_type \in DOMAIN provider_map
    THEN Return(provider_map[cfg.provider_type])
    ELSE Raise("ValueError", "Unsupported provider type: " \o cfg.provider_type)

\* config = ProviderConfig(**config_data); provider = _create_provider(config)
\* as _load_providers does per record and the configuration test does.
ConstructAndCreate(entry) ==
    IF ProviderConfigError(entry) # ""
    THEN Raise("TypeError", ProviderConfigError(entry))
    ELSE CreateProvider(ProviderConfig(entry))

\* self.providers[config.name] = provider
Register(reg, name, class) ==
    [n \in DOMAIN reg \cup {name} |-> IF n = name THEN class ELSE reg[n]]

\* The loop of _load_providers over the records of the source, inside one
\* try: the first record that raises ends the loop, the exception is logged,
\* and what was registered before stays registered.
RECURSIVE LoadEntries(_, _)
LoadEntries(reg, configs) ==
    IF configs = <<>>
    THEN [providers |-> reg, outcome |-> "loaded"]
    ELSE LET made == ConstructAndCreate(Head(configs))
         IN IF made.kind = "raise"
            THEN [providers |-> reg, outcome |-> "failed"]
            ELSE LoadEntries(Register(reg, Head(configs).name, made.val),
                             Tail(configs))

\* default_configs of _create_default_config, as written to the source
DefaultConfigs ==
    << ConfigEntry("gemini", GEMINI_CLI, "gemini", Absent),
       ConfigEntry("ollama", OLLAMA, Absent, "http://localhost:11434"),
       ConfigEntry("copilot", GITHUB_COPILOT, "copilot", Absent),
       ConfigEntry("qwen", OPENAI_COMPATIBLE, Absent, "http://localhost:8000/v1") >>

\* The configuration source: whether the file exists, its records, and
\* what the last _load_providers logged.
ConfigFile(exists, data, outcome) == [exists |-> exists, data |-> data, outcome |-> outcome]

\* Mutation of LoadProviders: the registry is emptied before the records
\* are read
LoadProviders_ClearsFirst(reg, file) ==
    IF file.exists
    THEN LET r == LoadEntries(<<>>, file.data)
         IN [providers |-> r.providers, config |-> ConfigFile(TRUE, file.data, r.outcome)]
    ELSE [providers |-> <<>>, config |-> ConfigFile(TRUE, DefaultConfigs, "created_default")]

\* _load_providers: read the records of an existing source into the
\* registry; when the source does not exist, write the default one (and
\* register nothing).
LoadProviders(reg, file) ==
    IF file.exists
    THEN LET r == LoadEntries(reg, file.data)
         IN [providers |-> r.providers, config |-> ConfigFile(TRUE, file.data, r.outcome)]
    ELSE [providers |-> reg, config |-> ConfigFile(TRUE, DefaultConfigs, "created_default")]

\* list_providers()
ListProviders == DOMAIN providers

\* update_config (web_interface.py): the posted records are written to the
\* configuration source and the providers are loaded again.  The records
\* come from JSON, so a provider_type in them is a string.
UpdateConfig(data) ==
    LET r == LoadProviders(providers, ConfigFile(TRUE, data, config.outcome)) IN
    /\ providers' = r.providers
    /\ config' = r.config
    /\ UNCHANGED <<sweep, objs, sessions, nextId, proc, tasks, now, pipe, cmp, calls>>

\* The records posted to update_config while sessions are running
ReloadSources ==
    { <<>>,
      << ConfigEntry("ollama", OLLAMA, Absent, "http://localhost:11434") >> }

-----------------------------------------------------------------------------
(* Provider.start_session and Orchestrator.start_session *)

\* GeminiCLIProvider.start_session / GitHubCopilotProvider.start_session:
\* the session is created STARTING; Popen either succeeds (process set,
\* ACTIVE) or raises (ERROR, no process); the session is returned either way.
\* Mutation of SubprocessStartSession: the status is left as created
SubprocessStartSession_Starting(name, spawned) ==
    IF spawned
    THEN [AISession(name, STARTING) EXCEPT !.process = TRUE]
    ELSE [AISession(name, STARTING) EXCEPT !.status = ERROR]

SubprocessStartSession(name, spawned) ==
    IF spawned
    THEN [AISession(name, STARTING) EXCEPT !.process = TRUE, !.status = ACTIVE]
    ELSE [AISession(name, STARTING) EXCEPT !.status = ERROR]

\* The task of a caller that makes one orchestrator call at a time, and the
\* task of the interactive mode of main, which starts sessions one after
\* another and calls stop_all_sessions when it quits.
Caller == 0
Interactive == 4
Other == 5

\* Exploration bound: a direct caller creates at most MaxSessions sessions,
\* the interactive mode at most MaxBatch (a comparison creates at most one
\* per requested provider).
MayCreate(t) ==
    \/ t \in DOMAIN pipe
    \/ t = Caller /\ nextId <= MaxSessions
    \/ t = Interactive /\ nextId <= MaxBatch

\* What the probe of is_available() can meet: subprocess.run of
\* "<command> --version" exits with 0 or with another code, or raises
\* because the command does not exist or the 5 second timeout expires;
\* requests.get answers with a status, or raises because the connection
\* fails or the 5 second timeout expires.
ProbeOutcomes(ptype) ==
    IF IsSubprocess(ptype)
    THEN {"exit0", "exit1", "FileNotFoundError", "TimeoutExpired"}
    ELSE {"200", "500", "ConnectionError", "Timeout"}

\* The body of the try block of is_available().  GeminiCLIProvider runs
\* [config.command, "--version"] (a TypeError when the command is None),
\* GitHubCopilotProvider always ["copilot", "--version"]; both return
\* returncode == 0.  OllamaProvider and OpenAICompatibleProvider make the
\* request only when an endpoint is configured and return
\* status_code == 200; without an endpoint the block falls through to
\* return False.
RunProbe(name, ptype, outcome) ==
    IF IsSubprocess(ptype)
    THEN IF ptype = GEMINI_CLI /\ CommandOf(name) = None
         THEN Raise("TypeError", "expected str, bytes or os.PathLike object, not NoneType")
         ELSE IF outcome \in {"exit0", "exit1"}
         THEN Return(IF outcome = "exit0" THEN "True" ELSE "False")
         ELSE Raise(outcome, "")
    ELSE IF EndpointOf(name) = None
         THEN Return("False")
         ELSE IF outcome \in {"200", "500"}
         THEN Return(IF outcome = "200" THEN "True" ELSE "False")
         ELSE Raise(outcome, "")

\* Mutation of IsAvailable: an exception of the probe reaches the caller
IsAvailable_Propagates(name, ptype, outcome) == RunProbe(name, ptype, outcome)

\* is_available(): the try block, with "except Exception" turning whatever
\* it raises into False.
IsAvailable(name, ptype, outcome) ==
    IF RunProbe(name, ptype, outcome).kind = "raise"
    THEN Return("False")
    ELSE RunProbe(name, ptype, outcome)

\* is_available() is an ordinary function: while a coroutine is inside it,
\* the thread of the event loop is inside subprocess.run or requests.get
\* and no coroutine of that loop runs.
\* The coroutines of one comparison run on one loop; any other task has a
\* loop, and a thread, of its own.
LoopRuns(t) ==
    \A u \in DOMAIN tasks :
        (u = t \/ (u \in DOMAIN pipe /\ t \in DOMAIN pipe)) => tasks[u].pc # "probe"

\* Mutation of RefuseStart: the probe's answer is ignored and a session is
\* registered all the same.
RefuseStart_StartsAnyway(t, name) ==
    /\ objs' = objs @@ (SidOf(nextId) :> AISession(name, ACTIVE))
    /\ sessions' = sessions \cup {SidOf(nextId)}
    /\ nextId' = nextId + 1
    /\ FinishProbed(t, ProviderNotAvailable(name), "False")
    /\ UNCHANGED proc

\* if not provider.is_available(): raise RuntimeError(...), before the
\* provider's start_session is reached
RefuseStart(t, name) ==
    /\ FinishProbed(t, ProviderNotAvailable(name), "False")
    /\ UNCHANGED <<objs, sessions, nextId, proc>>

\* AIProviderOrchestrator.start_session up to the call of
\* provider.is_available(): the lookup of the provider, then the thread
\* enters the probe.
OrchStartSession(t) ==
    LET name == tasks[t].name IN
    /\ tasks[t].pc = "call" /\ tasks[t].op = "start"
    /\ LoopRuns(t)
    /\ IF name \notin DOMAIN providers
       THEN Finish(t, ProviderNotFound(name))
       ELSE tasks' = [tasks EXCEPT ![t].pc = "probe", ![t].ptype = providers[name]]
    /\ UNCHANGED <<config, sweep, providers, objs, sessions, nextId, proc, now, pipe, cmp, calls>>

\* AIProviderOrchestrator.start_session from the return of is_available()
\* up to its first suspension.
OrchStartProbed(t) ==
    LET name == tasks[t].name
        ptype == tasks[t].ptype
        sid == SidOf(nextId)
    IN
    /\ tasks[t].pc = "probe" /\ tasks[t].op = "start"
    /\ \E outcome \in ProbeOutcomes(ptype) :
            IF IsAvailable(name, ptype, outcome).kind = "raise"
            THEN /\ Finish(t, IsAvailable(name, ptype, outcome))
                 /\ UNCHANGED <<objs, sessions, nextId, proc>>
            ELSE IF IsAvailable(name, ptype, outcome).val = "False"
            THEN RefuseStart(t, name)
            ELSE IF IsSubprocess(ptype)
            THEN \E spawned \in BOOLEAN :
                 /\ MayCreate(t)
                 /\ objs' = objs @@ (sid :> SubprocessStartSession(name, spawned))
                 /\ proc' = IF spawned THEN proc @@ (sid :> Popen) ELSE proc
                 /\ sessions' = sessions \cup {sid}
                 /\ nextId' = nextId + 1
                 /\ FinishProbed(t, Return(sid), "True")
            ELSE \* OllamaProvider / OpenAICompatibleProvider: created ACTIVE,
                 \* then await _check_model() / _check_connectivity()
                 /\ MayCreate(t)
                 /\ objs' = objs @@ (sid :> AISession(name, ACTIVE))
                 /\ nextId' = nextId + 1
                 /\ tasks' = [tasks EXCEPT ![t].pc = "start_check", ![t].sid = sid,
                                          ![t].probe = "True"]
                 /\ UNCHANGED <<sessions, proc>>
    /\ UNCHANGED <<config, sweep, providers, now, pipe, cmp, calls>>

\* The message of the RuntimeError an HTTP provider raises when its check fails
StartCheckError(name, ptype) ==
    IF ptype = OLLAMA
    THEN "Model " \o ModelOf(name) \o " not available"
    ELSE "API endpoint not reachable"

\* Mutation of CheckModel: any catalog that could be fetched will do
CheckModel_AnyCatalog(name, resp) ==
    /\ EndpointOf(name) # None
    /\ ModelOf(name) # None
    /\ resp.status = 200

\* OllamaProvider._check_model: False without an endpoint or a model; else
\* GET /api/tags, and on status 200 whether the configured model is among
\* the names of the catalog; False on any other status or exception.
CheckModel(name, resp) ==
    /\ EndpointOf(name) # None
    /\ ModelOf(name) # None
    /\ resp.status = 200
    /\ ModelOf(name) \in resp.models

\* OpenAICompatibleProvider._check_connectivity: False without an
\* endpoint; else GET /models, and whether the status is 200.
CheckConnectivity(name, resp) ==
    /\ EndpointOf(name) # None
    /\ resp.status = 200

\* The responses the check of a provider can receive; none when the check
\* returns before any request is made.
CheckResponsesOf(name, ptype) ==
    IF ptype = OLLAMA
    THEN IF EndpointOf(name) = None \/ ModelOf(name) = None
         THEN {NoCheck} ELSE CheckResponses
    ELSE IF EndpointOf(name) = None
         THEN {NoCheck} ELSE {r \in CheckResponses : r.models = {}} \cup {CheckResponse(200, {})}

\* The coroutine of task t finishes its start check with result r, having
\* received resp.
FinishChecked(t, r, resp) ==
    tasks' = [tasks EXCEPT ![t].pc = "idle", ![t].result = r, ![t].check = resp]

\* The check of an HTTP provider's start_session completes: on failure the
\* session becomes ERROR and RuntimeError is raised; on success the session
\* is returned and the orchestrator registers it.
HttpStartCheck(t) ==
    LET sid == tasks[t].sid
        name == tasks[t].name
    IN
    /\ tasks[t].pc = "start_check"
    /\ LoopRuns(t)
    /\ \E resp \in CheckResponsesOf(name, tasks[t].ptype) :
       IF IF tasks[t].ptype = OLLAMA
          THEN CheckModel(name, resp) ELSE CheckConnectivity(name, resp)
       THEN /\ sessions' = sessions \cup {sid}
            /\ FinishChecked(t, Return(sid), resp)
            /\ UNCHANGED objs
       ELSE /\ objs' = [objs EXCEPT ![sid].status = ERROR]
            /\ FinishChecked(t, Raise("RuntimeError", StartCheckError(name, tasks[t].ptype)), resp)
            /\ UNCHANGED sessions
    /\ UNCHANGED <<config, sweep, providers, nextId, proc, now, pipe, cmp, calls>>

-----------------------------------------------------------------------------
(* Provider.send_message and Orchestrator.send_message *)

\* Mutation of Turns: the assistant turn is appended before the user turn
Turns_AssistantFirst(message, response, tUser, tAssistant) ==
    << [role |-> "assistant", content |-> response, timestamp |-> tAssistant],
       [role |-> "user", content |-> message, timestamp |-> tUser] >>

\* The two conversation_history.append calls of a successful send_message
Turns(message, response, tUser, tAssistant) ==
    << [role |-> "user", content |-> message, timestamp |-> tUser],
       [role |-> "assistant", content |-> response, timestamp |-> tAssistant] >>

\* Mutation of RecordAndReturn: only the reply is recorded
RecordAndReturn_ReplyOnly(t, sid, response) ==
    /\ objs' = [objs EXCEPT
                  ![sid].last_activity = now,
                  ![sid].conversation_history =
                      @ \o Tail(Turns(tasks[t].msg, response, now, now))]
    /\ Finish(t, Return(response))
    /\ calls' = Append(calls, [sid |-> sid, message |-> tasks[t].msg, response |-> response])
    /\ UNCHANGED now

\* Mutation of RecordAndReturn: the new turns are inserted at the front of
\* the log instead of appended
RecordAndReturn_Prepend(t, sid, response) ==
    /\ objs' = [objs EXCEPT
                  ![sid].last_activity = now,
                  ![sid].conversation_history =
                      Turns(tasks[t].msg, response, now, now) \o @]
    /\ Finish(t, Return(response))
    /\ calls' = Append(calls, [sid |-> sid, message |-> tasks[t].msg, response |-> response])
    /\ UNCHANGED now

\* The success path shared by all four send_message implementations:
\* last_activity = time.time(), append the user turn, append the assistant
\* turn, return the response.  The block runs without suspension; its three
\* clock reads fall within one tick of the model's clock.
RecordAndReturn(t, sid, response) ==
    /\ objs' = [objs EXCEPT
                  ![sid].last_activity = now,
                  ![sid].conversation_history =
                      @ \o Turns(tasks[t].msg, response, now, now)]
    /\ Finish(t, Return(response))
    /\ calls' = Append(calls, [sid |-> sid, message |-> tasks[t].msg, response |-> response])
    /\ UNCHANGED now

\* Whether a text contains a line break
HasNewline(s) == \E i \in 1..Len(s) : SubSeq(s, i, i) = "\n"

\* The lines a text written to a pipe arrives as at a reader that reads
\* line by line: each ends with its line break, the last one possibly not.
RECURSIVE Lines(_)
Lines(s) ==
    IF Len(s) = 0 THEN <<>>
    ELSE IF ~HasNewline(s) THEN <<s>>
    ELSE LET i == CHOOSE k \in 1..Len(s) :
                     /\ SubSeq(s, k, k) = "\n"
                     /\ \A j \in 1..(k - 1) : SubSeq(s, j, j) # "\n"
         IN <<SubSeq(s, 1, i)>> \o Lines(SubSeq(s, i + 1, Len(s)))

\* provider.send_message(session, message), up to its first suspension.
ProviderSendMessage(t, sid, message) ==
    IF IsSubprocess(providers[objs[sid].provider])
    THEN \* GeminiCLIProvider.send_message / GitHubCopilotProvider.send_message
         IF ~objs[sid].process \/ objs[sid].status # ACTIVE
         THEN /\ Finish(t, Raise("RuntimeError", "Session is not active"))
              /\ UNCHANGED proc
         ELSE IF ~proc[sid].alive
         THEN \* stdin.write / flush on the pipe of an exited child
              /\ Finish(t, Raise("BrokenPipeError", "Broken pipe"))
              /\ UNCHANGED proc
         ELSE \* stdin.write(message + "\n"); stdin.flush()
              /\ Len(proc[sid].inq) + Len(Lines(message \o "\n")) <= MaxQueue
              /\ proc' = [proc EXCEPT ![sid].inq = @ \o Lines(message \o "\n")]
              /\ tasks' = [tasks EXCEPT ![t].pc = "send_wait"]
    ELSE \* OllamaProvider.send_message / OpenAICompatibleProvider.send_message:
         \* the request is posted whatever the session's status
         /\ tasks' = [tasks EXCEPT ![t].pc = "send_wait"]
         /\ UNCHANGED proc

\* AIProviderOrchestrator.send_message, up to its first suspension.
OrchSendMessage(t) ==
    LET sid == tasks[t].sid
        message == tasks[t].msg
    IN
    /\ tasks[t].pc = "call" /\ tasks[t].op = "send"
    /\ LoopRuns(t)
    /\ IF sid \notin sessions
       THEN /\ Finish(t, SessionNotFound(sid))
            /\ UNCHANGED proc
       ELSE IF objs[sid].provider \notin DOMAIN providers
       THEN /\ Finish(t, ProviderNotFound(objs[sid].provider))
            /\ UNCHANGED proc
       ELSE ProviderSendMessage(t, sid, message)
    /\ UNCHANGED <<config, sweep, providers, objs, sessions, nextId, now, pipe, cmp, calls>>

\* provider.send_message called directly on a session object the caller
\* holds, as the integration tests do: no registry lookup comes before it.
DirectSendMessage(t) ==
    /\ tasks[t].pc = "call" /\ tasks[t].op = "provider_send"
    /\ LoopRuns(t)
    /\ ProviderSendMessage(t, tasks[t].sid, tasks[t].msg)
    /\ UNCHANGED <<config, sweep, providers, objs, sessions, nextId, now, pipe, cmp, calls>>

\* _read_output: the executor thread's readline returns (a line of the
\* child's stdout, or "" at end of file once the child is gone), and
\* send_message records the stripped line as the response.
SubprocessReply(t) ==
    LET sid == tasks[t].sid IN
    /\ tasks[t].pc = "send_wait"
    /\ LoopRuns(t)
    /\ sid \in DOMAIN proc
    /\ proc[sid].outq # <<>> \/ ~proc[sid].alive
    /\ LET line == IF proc[sid].outq # <<>> THEN Head(proc[sid].outq) ELSE ""
       IN /\ proc' = [proc EXCEPT ![sid].outq = IF @ # <<>> THEN Tail(@) ELSE @]
          /\ RecordAndReturn(t, sid, Strip(line))
    /\ UNCHANGED <<config, sweep, providers, sessions, nextId, pipe, cmp>>

\* Mutation of SubprocessTimeout: the timed-out session is marked ERROR
SubprocessTimeout_MarksError(t) ==
    /\ tasks[t].pc = "send_wait"
    /\ LoopRuns(t)
    /\ tasks[t].sid \in DOMAIN proc
    /\ proc' = [proc EXCEPT ![tasks[t].sid].leaked = @ + 1]
    /\ objs' = [objs EXCEPT ![tasks[t].sid].status = ERROR]
    /\ Finish(t, Raise("TimeoutError", "AI response timeout"))
    /\ UNCHANGED <<config, sweep, providers, sessions, nextId, now, pipe, cmp, calls>>

\* asyncio.wait_for gives up after config.timeout: the await is cancelled
\* and TimeoutError("AI response timeout") raised.  The executor thread
\* cannot be cancelled; it stays blocked in readline.
SubprocessTimeout(t) ==
    LET sid == tasks[t].sid IN
    /\ tasks[t].pc = "send_wait"
    /\ LoopRuns(t)
    /\ sid \in DOMAIN proc
    /\ proc' = [proc EXCEPT ![sid].leaked = @ + 1]
    /\ Finish(t, Raise("TimeoutError", "AI response timeout"))
    /\ UNCHANGED <<config, sweep, providers, objs, sessions, nextId, now, pipe, cmp, calls>>

\* The text an HTTP backend answers a prompt with
HttpAnswer(message) == "re:" \o message

\* The HTTP response arrives: status 200 records and returns the response
\* text, any other status raises RuntimeError("HTTP <status>: ...").
HttpReply(t) ==
    LET sid == tasks[t].sid IN
    /\ tasks[t].pc = "send_wait"
    /\ LoopRuns(t)
    /\ sid \notin DOMAIN proc
    /\ \E status \in {200, 500} :
       IF status = 200
       THEN RecordAndReturn(t, sid, HttpAnswer(tasks[t].msg))
       ELSE /\ Finish(t, Raise("RuntimeError", "HTTP " \o ToStr(status) \o ": "))
            /\ UNCHANGED <<objs, now, calls>>
    /\ UNCHANGED <<config, sweep, providers, sessions, nextId, proc, pipe, cmp>>

\* Mutation of HttpFailure: the failed call still stamps the session
HttpFailure_Touches(t) ==
    /\ tasks[t].pc = "send_wait"
    /\ LoopRuns(t)
    /\ tasks[t].sid \notin DOMAIN proc
    /\ \E exc \in {"TimeoutError", "ClientError"} : Finish(t, Raise(exc, ""))
    /\ objs' = [objs EXCEPT ![tasks[t].sid].last_activity = now]
    /\ UNCHANGED <<config, sweep, providers, sessions, nextId, proc, now, pipe, cmp, calls>>

\* The HTTP round trip fails without a response: ClientTimeout(total=timeout)
\* expires (TimeoutError) or the connection fails (ClientError); the
\* exception is logged and re-raised.
HttpFailure(t) ==
    /\ tasks[t].pc = "send_wait"
    /\ LoopRuns(t)
    /\ tasks[t].sid \notin DOMAIN proc
    /\ \E exc \in {"TimeoutError", "ClientError"} : Finish(t, Raise(exc, ""))
    /\ UNCHANGED <<config, sweep, providers, objs, sessions, nextId, proc, now, pipe, cmp, calls>>

-----------------------------------------------------------------------------
(* Provider.stop_session and Orchestrator.stop_session *)

\* Mutation of DeleteAndReturn: True is returned but the entry is kept
DeleteAndReturn_KeepsEntry(t, sid) ==
    /\ Finish(t, Return("True"))
    /\ UNCHANGED sessions

\* The tail of AIProviderOrchestrator.stop_session once the provider has
\* reported success: del self.sessions[session_id], then return True.  The
\* del raises KeyError when the key is no longer there.
DeleteAndReturn(t, sid) ==
    IF sid \in sessions
    THEN /\ sessions' = sessions \ {sid}
         /\ Finish(t, Return("True"))
    ELSE /\ Finish(t, Raise("KeyError", sid))
         /\ UNCHANGED sessions

\* provider.stop_session has returned True: the orchestrator's
\* stop_session goes on to delete the entry; a caller that asked the
\* provider directly gets the True.
StopSucceeded(t, sid) ==
    IF tasks[t].op = "stop"
    THEN DeleteAndReturn(t, sid)
    ELSE /\ Finish(t, Return("True"))
         /\ UNCHANGED sessions

\* provider.stop_session(session), up to its first suspension.
ProviderStopSession(t, sid) ==
    IF IsSubprocess(providers[objs[sid].provider])
    THEN \* GeminiCLIProvider.stop_session / GitHubCopilotProvider.stop_session
         IF ~objs[sid].process
         THEN /\ Finish(t, Return("False"))
              /\ UNCHANGED <<objs, sessions, proc>>
         ELSE \E raised \in BOOLEAN :
              IF raised
              THEN \* process.terminate() raises: logged, return False
                   /\ Finish(t, Return("False"))
                   /\ UNCHANGED <<objs, sessions, proc>>
              ELSE \* terminate() delivered, then await asyncio.sleep(1)
                   /\ tasks' = [tasks EXCEPT ![t].pc = "stop_sleep"]
                   /\ proc' = [proc EXCEPT ![sid].signal = "terminate"]
                   /\ UNCHANGED <<objs, sessions>>
    ELSE \* OllamaProvider.stop_session / OpenAICompatibleProvider.stop_session
         /\ objs' = [objs EXCEPT ![sid].status = INACTIVE]
         /\ StopSucceeded(t, sid)
         /\ UNCHANGED proc

\* AIProviderOrchestrator.stop_session, up to its first suspension.
OrchStopSession(t) ==
    LET sid == tasks[t].sid IN
    /\ tasks[t].pc = "call" /\ tasks[t].op = "stop"
    /\ LoopRuns(t)
    /\ IF sid \notin sessions
       THEN /\ Finish(t, StopUnknownSession(sid))
            /\ UNCHANGED <<objs, sessions, proc>>
       ELSE IF objs[sid].provider \notin DOMAIN providers
       THEN /\ Finish(t, Return("False"))
            /\ UNCHANGED <<objs, sessions, proc>>
       ELSE ProviderStopSession(t, sid)
    /\ UNCHANGED <<config, sweep, providers, nextId, now, pipe, cmp, calls>>

\* provider.stop_session called directly on a session object, as the
\* integration tests do.
DirectStopSession(t) ==
    /\ tasks[t].pc = "call" /\ tasks[t].op = "provider_stop"
    /\ LoopRuns(t)
    /\ ProviderStopSession(t, tasks[t].sid)
    /\ UNCHANGED <<config, sweep, providers, nextId, now, pipe, cmp, calls>>

\* Mutation of SubprocessStopFinish: the child is waited for, not killed
SubprocessStopFinish_WaitsForExit(t) ==
    LET sid == tasks[t].sid IN
    /\ tasks[t].pc = "stop_sleep"
    /\ LoopRuns(t)
    /\ ~proc[sid].alive
    /\ objs' = [objs EXCEPT ![sid].status = INACTIVE]
    /\ StopSucceeded(t, sid)
    /\ UNCHANGED <<config, sweep, providers, nextId, proc, now, pipe, cmp, calls>>

\* Mutation of Escalate: kill() is called whether the child is still
\* running or not
Escalate_Always(p) == [p EXCEPT !.alive = FALSE, !.inq = <<>>, !.signal = "kill"]

\* if session.process.poll() is None: session.process.kill()
Escalate(p) ==
    IF p.alive
    THEN [p EXCEPT !.alive = FALSE, !.inq = <<>>, !.signal = "kill"]
    ELSE p

\* The sleep of a subprocess stop_session is over: kill the child if poll()
\* still reports it running, mark the session INACTIVE and report success;
\* a kill() that raises is logged and reported as False.
SubprocessStopFinish(t) ==
    LET sid == tasks[t].sid IN
    /\ tasks[t].pc = "stop_sleep"
    /\ LoopRuns(t)
    /\ \E raised \in BOOLEAN :
       IF raised /\ proc[sid].alive
       THEN /\ Finish(t, Return("False"))
            /\ UNCHANGED <<objs, sessions, proc>>
       ELSE /\ ~raised
            /\ proc' = [proc EXCEPT ![sid] = Escalate(@)]
            /\ objs' = [objs EXCEPT ![sid].status = INACTIVE]
            /\ StopSucceeded(t, sid)
    /\ UNCHANGED <<config, sweep, providers, nextId, now, pipe, cmp, calls>>

-----------------------------------------------------------------------------
(* get_session_history *)

\* AIProviderOrchestrator.get_session_history
OrchGetSessionHistory(t) ==
    LET sid == tasks[t].sid IN
    /\ tasks[t].pc = "call" /\ tasks[t].op = "history"
    /\ LoopRuns(t)
    /\ IF sid \notin sessions
       THEN Finish(t, SessionNotFound(sid))
       ELSE Finish(t, Return("history"))
    /\ UNCHANGED <<config, sweep, providers, objs, sessions, nextId, proc, now, pipe, cmp, calls>>

\* What get_session_history(sid) returns for a registered session: a copy
\* of the conversation log.
GetSessionHistory(sid) == [i \in 1..Len(objs[sid].conversation_history) |->
                              objs[sid].conversation_history[i]]

-----------------------------------------------------------------------------
(* list_sessions *)

\* Mutation of SessionInfo: the exchanges are counted, not the turns
SessionInfo_CountsExchanges(sid) ==
    [session_id |-> sid,
     provider |-> objs[sid].provider,
     status |-> objs[sid].status,
     created_at |-> objs[sid].created_at,
     last_activity |-> objs[sid].last_activity,
     conversation_length |-> Len(objs[sid].conversation_history) \div 2]

\* The record list_sessions builds for one entry of the registry
SessionInfo(sid) ==
    [session_id |-> sid,
     provider |-> objs[sid].provider,
     status |-> objs[sid].status,
     created_at |-> objs[sid].created_at,
     last_activity |-> objs[sid].last_activity,
     conversation_length |-> Len(objs[sid].conversation_history)]

\* The loop of list_sessions over self.sessions.items(): one record is
\* appended per entry.  The registry's insertion order is not followed by
\* the model; the ids are taken in a fixed order.
RECURSIVE ListSessionsOf(_)
ListSessionsOf(ids) ==
    IF ids = {} THEN <<>>
    ELSE LET sid == CHOOSE x \in ids : TRUE
         IN <<SessionInfo(sid)>> \o ListSessionsOf(ids \ {sid})

\* AIProviderOrchestrator.list_sessions(): synchronous; the task keeps the
\* list that was returned.
OrchListSessions(t) ==
    /\ tasks[t].pc = "idle"
    /\ tasks' = [tasks EXCEPT ![t] =
                    [pc |-> "idle", op |-> "list_sessions", name |-> "", sid |-> "",
                     msg |-> "", t0 |-> now, ptype |-> "", probe |-> "none", check |-> NoCheck,
                     listing |-> ListSessionsOf(sessions), result |-> Return("list")]]
    /\ UNCHANGED <<config, sweep, providers, objs, sessions, nextId, proc, now, pipe, cmp, calls>>

-----------------------------------------------------------------------------
(* Environment: the child processes and the clock *)

\* What the child prints for one line of input
ChildAnswer(line) == " re:" \o line

\* A child consumes the oldest line of its stdin and prints its answer.
ChildReply(sid) ==
    /\ proc[sid].alive
    /\ proc[sid].inq # <<>>
    /\ Len(proc[sid].outq) < MaxQueue
    /\ proc' = [proc EXCEPT ![sid].inq = Tail(@),
                            ![sid].outq = Append(@, ChildAnswer(Head(proc[sid].inq)))]
    /\ UNCHANGED <<config, sweep, providers, objs, sessions, nextId, tasks, now, pipe, cmp, calls>>

\* A child exits (on its own, or after the terminate signal).
ChildExit(sid) ==
    /\ proc[sid].alive
    /\ proc' = [proc EXCEPT ![sid].alive = FALSE, ![sid].inq = <<>>]
    /\ UNCHANGED <<config, sweep, providers, objs, sessions, nextId, tasks, now, pipe, cmp, calls>>

\* An executor thread abandoned by a timed-out send_message gets its line
\* (or end of file) at last; the line is thrown away with the thread.
LeakedRead(sid) ==
    /\ proc[sid].leaked > 0
    /\ proc[sid].outq # <<>> \/ ~proc[sid].alive
    /\ proc' = [proc EXCEPT ![sid].leaked = @ - 1,
                            ![sid].outq = IF @ # <<>> THEN Tail(@) ELSE @]
    /\ UNCHANGED <<config, sweep, providers, objs, sessions, nextId, tasks, now, pipe, cmp, calls>>

\* Time passes.
Tick ==
    /\ now < MaxClock
    /\ now' = now + 1
    /\ UNCHANGED <<config, sweep, providers, objs, sessions, nextId, proc, tasks, pipe, cmp, calls>>

-----------------------------------------------------------------------------
(* A caller of the orchestrator API, one call at a time *)

KnownSids == DOMAIN objs \cup {NoSuchSid}

CallStart(t, name) ==
    /\ tasks[t].pc = "idle"
    /\ tasks' = [tasks EXCEPT ![t] = NewCall("start", name, "", "")]
    /\ UNCHANGED <<config, sweep, providers, objs, sessions, nextId, proc, now, pipe, cmp, calls>>

CallSend(t, sid, message) ==
    /\ tasks[t].pc = "idle"
    /\ sid \in DOMAIN objs => Len(objs[sid].conversation_history) < 2 * MaxSends
    /\ sid \in DOMAIN proc => proc[sid].leaked < MaxLeaked
    /\ tasks' = [tasks EXCEPT ![t] = NewCall("send", "", sid, message)]
    /\ UNCHANGED <<config, sweep, providers, objs, sessions, nextId, proc, now, pipe, cmp, calls>>

\* The caller holds on to the session objects it saw in the registry and
\* hands one to its provider directly; a session still being started is
\* not among them.
HeldSessions == {sid \in DOMAIN objs : sid \in sessions \/ objs[sid].status = INACTIVE}

CallProviderSend(t, sid, message) ==
    /\ tasks[t].pc = "idle"
    /\ Len(objs[sid].conversation_history) < 2 * MaxSends
    /\ sid \in DOMAIN proc => proc[sid].leaked < MaxLeaked
    /\ tasks' = [tasks EXCEPT ![t] = NewCall("provider_send", "", sid, message)]
    /\ UNCHANGED <<config, sweep, providers, objs, sessions, nextId, proc, now, pipe, cmp, calls>>

\* The session object the error-handling test builds by hand for a
\* provider: AISession(session_id="fake-session", provider_config=
\* provider.config, status=SessionStatus.ACTIVE).  It was never started:
\* it has no process and is not in the registry.
FakeSid == "fake-session"

\* The test hands the fake session to provider.send_message (exploration
\* bound: while fewer than MaxSends sends have been answered).
CallFakeSend(t, name, message) ==
    /\ tasks[t].pc = "idle"
    /\ name \in DOMAIN providers
    /\ Len(calls) < MaxSends
    /\ objs' = (FakeSid :> AISession(name, ACTIVE)) @@ objs
    /\ tasks' = [tasks EXCEPT ![t] = NewCall("provider_send", "", FakeSid, message)]
    /\ UNCHANGED <<config, sweep, providers, sessions, nextId, proc, now, pipe, cmp, calls>>

\* The test then hands the same object to provider.stop_session.
CallFakeStop(t) ==
    /\ tasks[t].pc = "idle"
    /\ tasks[t].op = "provider_send" /\ tasks[t].sid = FakeSid
    /\ tasks' = [tasks EXCEPT ![t] = NewCall("provider_stop", "", FakeSid, "")]
    /\ UNCHANGED <<config, sweep, providers, objs, sessions, nextId, proc, now, pipe, cmp, calls>>

CallStop(t, sid) ==
    /\ tasks[t].pc = "idle"
    /\ tasks' = [tasks EXCEPT ![t] = NewCall("stop", "", sid, "")]
    /\ UNCHANGED <<config, sweep, providers, objs, sessions, nextId, proc, now, pipe, cmp, calls>>

CallHistory(t, sid) ==
    /\ tasks[t].pc = "idle"
    /\ tasks' = [tasks EXCEPT ![t] = NewCall("history", "", sid, "")]
    /\ UNCHANGED <<config, sweep, providers, objs, sessions, nextId, proc, now, pipe, cmp, calls>>

-----------------------------------------------------------------------------
(* Specification: one caller driving the orchestrator *)

NoCompare == [pc |-> "idle", providers |-> <<>>, message |-> "", status |-> 0, results |-> <<>>]

\* stop_all_sessions is not running
NoSweep == [pc |-> "idle", snapshot |-> {}, todo |-> {}, current |-> "",
            stopped_count |-> 0, visited |-> <<>>]

Init ==
    /\ providers = DefaultRegistry
    /\ objs = <<>>
    /\ sessions = {}
    /\ nextId = 1
    /\ proc = <<>>
    /\ tasks = (Caller :> IdleTask)
    /\ now = 0
    /\ pipe = <<>>
    /\ cmp = NoCompare
    /\ calls = <<>>
    /\ config = ConfigFile(TRUE, DefaultConfigs, "created_default")
    /\ sweep = NoSweep

Next ==
    \/ \E name \in ProviderNames : CallStart(Caller, name)
    \/ \E sid \in KnownSids : \E m \in Messages : CallSend(Caller, sid, m)
    \/ \E sid \in KnownSids : CallStop(Caller, sid)
    \/ \E sid \in KnownSids : CallHistory(Caller, sid)
    \/ \E t \in DOMAIN tasks : OrchStartSession(t)
    \/ \E t \in DOMAIN tasks : OrchStartProbed(t)
    \/ \E t \in DOMAIN tasks : HttpStartCheck(t)
    \/ \E t \in DOMAIN tasks : OrchSendMessage(t)
    \/ \E t \in DOMAIN tasks : SubprocessReply(t)
    \/ \E t \in DOMAIN tasks : SubprocessTimeout(t)
    \/ \E t \in DOMAIN tasks : HttpReply(t)
    \/ \E t \in DOMAIN tasks : HttpFailure(t)
    \/ \E t \in DOMAIN tasks : OrchStopSession(t)
    \/ \E t \in DOMAIN tasks : SubprocessStopFinish(t)
    \/ \E t \in DOMAIN tasks : OrchGetSessionHistory(t)
    \/ \E sid \in DOMAIN proc : ChildReply(sid)
    \/ \E sid \in DOMAIN proc : ChildExit(sid)
    \/ \E sid \in DOMAIN proc : LeakedRead(sid)
    \/ Tick
    \/ \E data \in ReloadSources : UpdateConfig(data)

Spec == Init /\ [][Next]_vars

TypeOK ==
    /\ sessions \subseteq DOMAIN objs
    /\ DOMAIN proc \subseteq DOMAIN objs
    /\ \A sid \in DOMAIN objs : objs[sid].status \in SessionStatus
    /\ now \in 0..MaxClock

-----------------------------------------------------------------------------
(* compare_providers (web_interface.py): the comparison fan-out *)

\* The provider lists a comparison is requested with
CompareRequests ==
    { <<>>,
      <<"gemini", "ollama", "qwen">>,
      <<"ollama", "copilot", "nosuch">>,
      <<"qwen", "gemini">>,
      <<"copilot", "copilot">> }

\* The request handler: validate the request, create one
\* get_provider_response coroutine per requested provider, and run the loop
\* until asyncio.gather has them all.
CompareBegin(message, names) ==
    /\ cmp.pc = "idle"
    /\ IF names = <<>>
       THEN \* 'Message and providers are required', 400
            /\ cmp' = [cmp EXCEPT !.pc = "returned", !.status = 400, !.message = message]
            /\ UNCHANGED <<tasks, pipe>>
       ELSE /\ cmp' = [cmp EXCEPT !.pc = "gather", !.providers = names, !.message = message]
            /\ tasks' = [i \in 1..Len(names) |-> NewCall("start", names[i], "", "")]
            /\ pipe' = [i \in 1..Len(names) |-> [stage |-> "start", response |-> "", out |-> ""]]
    /\ UNCHANGED <<config, sweep, providers, objs, sessions, nextId, proc, now, calls>>

\* get_provider_response between two awaited orchestrator calls: an
\* exception of the call just finished is captured as "Error: <text>";
\* otherwise the next call of start_session, send_message, stop_session is
\* made, and after stop_session the response is returned.
GetProviderResponse(t) ==
    LET r == tasks[t].result IN
    /\ cmp.pc = "gather"
    /\ tasks[t].pc = "idle"
    /\ LoopRuns(t)
    /\ pipe[t].stage # "done"
    /\ IF r.kind = "raise"
       THEN /\ pipe' = [pipe EXCEPT ![t].stage = "done", ![t].out = "Error: " \o r.val]
            /\ UNCHANGED tasks
       ELSE CASE pipe[t].stage = "start" ->
                 /\ tasks' = [tasks EXCEPT ![t] = NewCall("send", tasks[t].name, r.val, cmp.message)]
                 /\ pipe' = [pipe EXCEPT ![t].stage = "send"]
              [] pipe[t].stage = "send" ->
                 /\ tasks' = [tasks EXCEPT ![t] = NewCall("stop", tasks[t].name, tasks[t].sid, "")]
                 /\ pipe' = [pipe EXCEPT ![t].stage = "stop", ![t].response = r.val]
              [] pipe[t].stage = "stop" ->
                 /\ pipe' = [pipe EXCEPT ![t].stage = "done", ![t].out = pipe[t].response]
                 /\ UNCHANGED tasks
    /\ UNCHANGED <<config, sweep, providers, objs, sessions, nextId, proc, now, cmp, calls>>

\* The pairs asyncio.gather returns, in the order of the request
Responses == [i \in DOMAIN pipe |-> <<cmp.providers[i], pipe[i].out>>]

\* Mutation of ResultsOf: every slot is filled from the last pair
ResultsOf_LastForAll(responses) ==
    [name \in {responses[i][1] : i \in DOMAIN responses} |->
        [response |-> responses[Len(responses)][2], timestamp |-> now]]

\* results[provider_name] = {...} for each pair in turn: a later pair
\* overwrites an earlier one of the same name.
ResultsOf(responses) ==
    [name \in {responses[i][1] : i \in DOMAIN responses} |->
        LET last == CHOOSE i \in DOMAIN responses :
                       /\ responses[i][1] = name
                       /\ \A j \in DOMAIN responses : responses[j][1] = name => j <= i
        IN [response |-> responses[last][2], timestamp |-> now]]

\* Mutation of CompareReturn: the handler answers as soon as one coroutine
\* has returned (asyncio.wait with FIRST_COMPLETED)
CompareReturn_FirstCompleted ==
    /\ cmp.pc = "gather"
    /\ \A t \in DOMAIN pipe : LoopRuns(t)
    /\ \E t \in DOMAIN pipe : pipe[t].stage = "done"
    /\ cmp' = [cmp EXCEPT !.pc = "returned", !.status = 200, !.results = ResultsOf(Responses)]
    /\ UNCHANGED <<config, sweep, providers, objs, sessions, nextId, proc, tasks, now, pipe, calls>>

\* asyncio.gather completes once every coroutine has returned; the handler
\* builds the result map and answers.
CompareReturn ==
    /\ cmp.pc = "gather"
    /\ \A t \in DOMAIN pipe : LoopRuns(t)
    /\ \A t \in DOMAIN pipe : pipe[t].stage = "done"
    /\ cmp' = [cmp EXCEPT !.pc = "returned", !.status = 200, !.results = ResultsOf(Responses)]
    /\ UNCHANGED <<config, sweep, providers, objs, sessions, nextId, proc, tasks, now, pipe, calls>>

InitCompare ==
    /\ providers = DefaultRegistry
    /\ objs = <<>>
    /\ sessions = {}
    /\ nextId = 1
    /\ proc = <<>>
    /\ tasks = <<>>
    /\ now = 0
    /\ pipe = <<>>
    /\ cmp = NoCompare
    /\ calls = <<>>
    /\ config = ConfigFile(TRUE, DefaultConfigs, "created_default")
    /\ sweep = NoSweep

NextCompare ==
    \/ \E m \in Messages : \E names \in CompareRequests : CompareBegin(m, names)
    \/ \E t \in DOMAIN tasks : GetProviderResponse(t)
    \/ CompareReturn
    \/ \E t \in DOMAIN tasks : OrchStartSession(t)
    \/ \E t \in DOMAIN tasks : OrchStartProbed(t)
    \/ \E t \in DOMAIN tasks : HttpStartCheck(t)
    \/ \E t \in DOMAIN tasks : OrchSendMessage(t)
    \/ \E t \in DOMAIN tasks : SubprocessReply(t)
    \/ \E t \in DOMAIN tasks : SubprocessTimeout(t)
    \/ \E t \in DOMAIN tasks : HttpReply(t)
    \/ \E t \in DOMAIN tasks : HttpFailure(t)
    \/ \E t \in DOMAIN tasks : OrchStopSession(t)
    \/ \E t \in DOMAIN tasks : SubprocessStopFinish(t)
    \/ \E sid \in DOMAIN proc : ChildReply(sid)
    \/ \E sid \in DOMAIN proc : ChildExit(sid)
    \/ \E sid \in DOMAIN proc : LeakedRead(sid)

SpecCompare == InitCompare /\ [][NextCompare]_vars

-----------------------------------------------------------------------------
(* Specification: a caller that also talks to the providers directly *)

\* A message of two lines, and the messages handed to a provider
MultiLine == "a\nb"
ProviderMessages == Messages \cup {MultiLine}

\* provider.is_available() called directly on a registered provider, as
\* the availability test and the provider listing of the web interface do.
\* The call is synchronous; the task keeps what the probe met and what
\* is_available() answered.
DirectProbe(t, name) ==
    /\ tasks[t].pc = "idle"
    /\ name \in DOMAIN providers
    /\ \E outcome \in ProbeOutcomes(providers[name]) :
          tasks' = [tasks EXCEPT ![t] =
                       [pc |-> "idle", op |-> "is_available", name |-> name, sid |-> "",
                        msg |-> "", t0 |-> now, ptype |-> providers[name], probe |-> "none", check |-> NoCheck,
                        outcome |-> outcome,
                        result |-> IsAvailable(name, providers[name], outcome)]]
    /\ UNCHANGED <<config, sweep, providers, objs, sessions, nextId, proc, now, pipe, cmp, calls>>

\* The registry holds the providers of the default configuration and the
\* ones with a field left out.
InitProbe ==
    /\ providers = DefaultRegistry @@ BareRegistry
    /\ objs = <<>>
    /\ sessions = {}
    /\ nextId = 1
    /\ proc = <<>>
    /\ tasks = (Caller :> IdleTask)
    /\ now = 0
    /\ pipe = <<>>
    /\ cmp = NoCompare
    /\ calls = <<>>
    /\ config = ConfigFile(TRUE, DefaultConfigs, "created_default")
    /\ sweep = NoSweep

NextProvider ==
    \/ \E name \in ProviderNames : CallStart(Caller, name)
    \/ \E sid \in KnownSids : CallStop(Caller, sid)
    \/ \E sid \in HeldSessions : \E m \in ProviderMessages : CallProviderSend(Caller, sid, m)
    \/ OrchListSessions(Caller)
    \/ \E t \in DOMAIN tasks : OrchStartSession(t)
    \/ \E t \in DOMAIN tasks : OrchStartProbed(t)
    \/ \E t \in DOMAIN tasks : HttpStartCheck(t)
    \/ \E t \in DOMAIN tasks : OrchStopSession(t)
    \/ \E t \in DOMAIN tasks : SubprocessStopFinish(t)
    \/ \E t \in DOMAIN tasks : DirectSendMessage(t)
    \/ \E t \in DOMAIN tasks : SubprocessReply(t)
    \/ \E t \in DOMAIN tasks : SubprocessTimeout(t)
    \/ \E t \in DOMAIN tasks : HttpReply(t)
    \/ \E t \in DOMAIN tasks : HttpFailure(t)
    \/ \E sid \in DOMAIN proc : ChildReply(sid)
    \/ \E sid \in DOMAIN proc : ChildExit(sid)
    \/ \E sid \in DOMAIN proc : LeakedRead(sid)

SpecProvider == Init /\ [][NextProvider]_vars

-----------------------------------------------------------------------------
(* Specification: two request handlers, each on a thread and a loop of its
   own, the second one only stopping sessions *)

InitOverlap ==
    /\ providers = DefaultRegistry
    /\ objs = <<>>
    /\ sessions = {}
    /\ nextId = 1
    /\ proc = <<>>
    /\ tasks = (Caller :> IdleTask) @@ (Other :> IdleTask)
    /\ now = 0
    /\ pipe = <<>>
    /\ cmp = NoCompare
    /\ calls = <<>>
    /\ config = ConfigFile(TRUE, DefaultConfigs, "created_default")
    /\ sweep = NoSweep

NextOverlap ==
    \/ \E name \in {"gemini", "ollama"} : CallStart(Caller, name)
    \/ \E t \in {Caller, Other} : \E sid \in KnownSids : CallStop(t, sid)
    \/ \E t \in DOMAIN tasks : OrchStartSession(t)
    \/ \E t \in DOMAIN tasks : OrchStartProbed(t)
    \/ \E t \in DOMAIN tasks : HttpStartCheck(t)
    \/ \E t \in DOMAIN tasks : OrchStopSession(t)
    \/ \E t \in DOMAIN tasks : SubprocessStopFinish(t)
    \/ \E sid \in DOMAIN proc : ChildExit(sid)

SpecOverlap == InitOverlap /\ [][NextOverlap]_vars

-----------------------------------------------------------------------------
(* Specification: the error-handling test, which hands each provider a
   session object that was never started *)

NextFake ==
    \/ \E name \in DOMAIN providers : \E m \in ProviderMessages : CallFakeSend(Caller, name, m)
    \/ CallFakeStop(Caller)
    \/ \E t \in DOMAIN tasks : DirectSendMessage(t)
    \/ \E t \in DOMAIN tasks : DirectStopSession(t)
    \/ \E t \in DOMAIN tasks : HttpReply(t)
    \/ \E t \in DOMAIN tasks : HttpFailure(t)

SpecFake == Init /\ [][NextFake]_vars

-----------------------------------------------------------------------------
(* Specification: a caller that probes the providers and starts sessions *)

NextProbe ==
    \/ \E name \in ProviderNames \cup DOMAIN BareRegistry : CallStart(Caller, name)
    \/ \E name \in DOMAIN providers : DirectProbe(Caller, name)
    \/ \E sid \in KnownSids : CallStop(Caller, sid)
    \/ \E t \in DOMAIN tasks : OrchStartSession(t)
    \/ \E t \in DOMAIN tasks : OrchStartProbed(t)
    \/ \E t \in DOMAIN tasks : HttpStartCheck(t)
    \/ \E t \in DOMAIN tasks : OrchStopSession(t)
    \/ \E t \in DOMAIN tasks : SubprocessStopFinish(t)
    \/ \E sid \in DOMAIN proc : ChildExit(sid)

SpecProbe == InitProbe /\ [][NextProbe]_vars

-----------------------------------------------------------------------------
(* stop_all_sessions, called by the interactive mode of main *)

\* Mutation of StopAllBegin: the call empties the provider registry too
StopAllBegin_ClearsRegistry(t) ==
    /\ tasks[t].pc = "idle"
    /\ sweep.pc # "loop"
    /\ sweep' = [pc |-> "loop", snapshot |-> sessions, todo |-> sessions,
                 current |-> "", stopped_count |-> 0, visited |-> <<>>]
    /\ providers' = <<>>
    /\ UNCHANGED <<config, objs, sessions, nextId, proc, tasks, now, pipe, cmp, calls>>

\* stop_all_sessions is called: stopped_count = 0 and the ids are copied
\* from the registry.  The model also keeps, for the record, what each
\* stop_session returned, in the order of the visits.
StopAllBegin(t) ==
    /\ tasks[t].pc = "idle"
    /\ sweep.pc # "loop"
    /\ sweep' = [pc |-> "loop", snapshot |-> sessions, todo |-> sessions,
                 current |-> "", stopped_count |-> 0, visited |-> <<>>]
    /\ UNCHANGED <<config, providers, objs, sessions, nextId, proc, tasks, now, pipe, cmp, calls>>

\* What the loop has after the stop_session it awaited is over: the count
\* is incremented when it returned True; an exception leaves the loop.
AfterStop(t) ==
    IF sweep.current = ""
    THEN sweep
    ELSE [sweep EXCEPT
            !.visited = Append(@, [sid |-> sweep.current, ok |-> tasks[t].result.val]),
            !.stopped_count = IF tasks[t].result = Return("True") THEN @ + 1 ELSE @]

\* Mutation of StopAllNext: the loop ends at the first session that fails
\* to stop
StopAllNext_StopsAtFailure(t) ==
    /\ sweep.pc = "loop"
    /\ tasks[t].pc = "idle"
    /\ IF sweep.current # "" /\ tasks[t].result.kind = "raise"
       THEN /\ sweep' = [sweep EXCEPT !.pc = "raised"]
            /\ UNCHANGED tasks
       ELSE IF AfterStop(t).todo = {}
               \/ (sweep.current # "" /\ tasks[t].result = Return("False"))
       THEN /\ sweep' = [AfterStop(t) EXCEPT !.pc = "returned", !.current = ""]
            /\ UNCHANGED tasks
       ELSE \E sid \in sweep.todo :
            /\ sweep' = [AfterStop(t) EXCEPT !.todo = @ \ {sid}, !.current = sid]
            /\ tasks' = [tasks EXCEPT ![t] = NewCall("stop", "", sid, "")]
    /\ UNCHANGED <<config, providers, objs, sessions, nextId, proc, now, pipe, cmp, calls>>

\* One turn of the loop of stop_all_sessions: take the outcome of the
\* stop_session just awaited, then call stop_session for the next id of
\* the copied list, or return stopped_count when the list is exhausted.
\* The list is in the registry's insertion order; the model visits the ids
\* in any order.
StopAllNext(t) ==
    /\ sweep.pc = "loop"
    /\ tasks[t].pc = "idle"
    /\ IF sweep.current # "" /\ tasks[t].result.kind = "raise"
       THEN /\ sweep' = [sweep EXCEPT !.pc = "raised"]
            /\ UNCHANGED tasks
       ELSE IF AfterStop(t).todo = {}
       THEN /\ sweep' = [AfterStop(t) EXCEPT !.pc = "returned", !.current = ""]
            /\ UNCHANGED tasks
       ELSE \E sid \in sweep.todo :
            /\ sweep' = [AfterStop(t) EXCEPT !.todo = @ \ {sid}, !.current = sid]
            /\ tasks' = [tasks EXCEPT ![t] = NewCall("stop", "", sid, "")]
    /\ UNCHANGED <<config, providers, objs, sessions, nextId, proc, now, pipe, cmp, calls>>

InitStopAll ==
    /\ providers = DefaultRegistry
    /\ objs = <<>>
    /\ sessions = {}
    /\ nextId = 1
    /\ proc = <<>>
    /\ tasks = (Interactive :> IdleTask)
    /\ now = 0
    /\ pipe = <<>>
    /\ cmp = NoCompare
    /\ calls = <<>>
    /\ config = ConfigFile(TRUE, DefaultConfigs, "created_default")
    /\ sweep = NoSweep

NextStopAll ==
    \/ \E name \in ProviderNames : sweep.pc # "loop" /\ CallStart(Interactive, name)
    \/ StopAllBegin(Interactive)
    \/ StopAllNext(Interactive)
    \/ \E t \in DOMAIN tasks : OrchStartSession(t)
    \/ \E t \in DOMAIN tasks : OrchStartProbed(t)
    \/ \E t \in DOMAIN tasks : HttpStartCheck(t)
    \/ \E t \in DOMAIN tasks : OrchStopSession(t)
    \/ \E t \in DOMAIN tasks : SubprocessStopFinish(t)
    \/ \E sid \in DOMAIN proc : ChildExit(sid)

SpecStopAll == InitStopAll /\ [][NextStopAll]_vars

-----------------------------------------------------------------------------
(* Specification: stop_all_sessions of the interactive mode while another
   task on the same event loop calls stop_session *)

InitSweepOverlap ==
    /\ providers = DefaultRegistry
    /\ objs = <<>>
    /\ sessions = {}
    /\ nextId = 1
    /\ proc = <<>>
    /\ tasks = (Interactive :> IdleTask) @@ (Other :> IdleTask)
    /\ now = 0
    /\ pipe = <<>>
    /\ cmp = NoCompare
    /\ calls = <<>>
    /\ config = ConfigFile(TRUE, DefaultConfigs, "created_default")
    /\ sweep = NoSweep

NextSweepOverlap ==
    \/ \E name \in {"gemini", "ollama"} :
          sweep.pc = "idle" /\ CallStart(Interactive, name)
    \/ \E sid \in KnownSids : CallStop(Other, sid)
    \/ sweep.pc = "idle" /\ StopAllBegin(Interactive)
    \/ StopAllNext(Interactive)
    \/ \E t \in DOMAIN tasks : OrchStartSession(t)
    \/ \E t \in DOMAIN tasks : OrchStartProbed(t)
    \/ \E t \in DOMAIN tasks : HttpStartCheck(t)
    \/ \E t \in DOMAIN tasks : OrchStopSession(t)
    \/ \E t \in DOMAIN tasks : SubprocessStopFinish(t)
    \/ \E sid \in DOMAIN proc : ChildExit(sid)

SpecSweepOverlap == InitSweepOverlap /\ [][NextSweepOverlap]_vars

-----------------------------------------------------------------------------
(* Specification: two tasks of one event loop that start, address and stop
   the same sessions, so that their calls overlap at the suspension points *)

NextConcurrent ==
    \/ \E name \in {"gemini", "ollama"} : CallStart(Caller, name)
    \/ \E t \in {Caller, Other} : \E sid \in KnownSids : \E m \in Messages :
          CallSend(t, sid, m)
    \/ \E t \in {Caller, Other} : \E sid \in KnownSids : CallStop(t, sid)
    \/ \E t \in DOMAIN tasks : OrchStartSession(t)
    \/ \E t \in DOMAIN tasks : OrchStartProbed(t)
    \/ \E t \in DOMAIN tasks : HttpStartCheck(t)
    \/ \E t \in DOMAIN tasks : OrchSendMessage(t)
    \/ \E t \in DOMAIN tasks : SubprocessReply(t)
    \/ \E t \in DOMAIN tasks : SubprocessTimeout(t)
    \/ \E t \in DOMAIN tasks : HttpReply(t)
    \/ \E t \in DOMAIN tasks : HttpFailure(t)
    \/ \E t \in DOMAIN tasks : OrchStopSession(t)
    \/ \E t \in DOMAIN tasks : SubprocessStopFinish(t)
    \/ \E sid \in DOMAIN proc : ChildReply(sid)
    \/ \E sid \in DOMAIN proc : ChildExit(sid)

SpecConcurrent == InitOverlap /\ [][NextConcurrent]_vars

-----------------------------------------------------------------------------
(* Specification: a caller of a subprocess session that sends again after
   a timeout, while the reader thread of the timed-out call is still
   blocked on the child's stdout *)

\* The caller answers a TimeoutError by sending on the same session again
\* (exploration bound: while at most MaxLeaked readers are abandoned).
CallRetry(t, message) ==
    LET sid == tasks[t].sid IN
    /\ tasks[t].pc = "idle"
    /\ tasks[t].op = "send"
    /\ tasks[t].result = Raise("TimeoutError", "AI response timeout")
    /\ sid \in DOMAIN proc
    /\ proc[sid].leaked <= MaxLeaked
    /\ Len(objs[sid].conversation_history) < 2 * MaxSends
    /\ tasks' = [tasks EXCEPT ![t] = NewCall("send", "", sid, message)]
    /\ UNCHANGED <<config, sweep, providers, objs, sessions, nextId, proc, now, pipe, cmp, calls>>

NextRetry ==
    \/ \E name \in {"gemini", "copilot"} : CallStart(Caller, name)
    \/ \E sid \in KnownSids : \E m \in Messages : CallSend(Caller, sid, m)
    \/ \E m \in Messages : CallRetry(Caller, m)
    \/ \E sid \in KnownSids : CallStop(Caller, sid)
    \/ \E t \in DOMAIN tasks : OrchStartSession(t)
    \/ \E t \in DOMAIN tasks : OrchStartProbed(t)
    \/ \E t \in DOMAIN tasks : OrchSendMessage(t)
    \/ \E t \in DOMAIN tasks : SubprocessReply(t)
    \/ \E t \in DOMAIN tasks : SubprocessTimeout(t)
    \/ \E t \in DOMAIN tasks : OrchStopSession(t)
    \/ \E t \in DOMAIN tasks : SubprocessStopFinish(t)
    \/ \E sid \in DOMAIN proc : ChildReply(sid)
    \/ \E sid \in DOMAIN proc : ChildExit(sid)
    \/ \E sid \in DOMAIN proc : LeakedRead(sid)

SpecRetry == Init /\ [][NextRetry]_vars

-----------------------------------------------------------------------------
(* Specification: one caller using every session operation of the
   orchestrator, with configuration reloads in between *)

NextSurface ==
    \/ \E name \in ProviderNames : sweep.pc # "loop" /\ CallStart(Caller, name)
    \/ \E sid \in KnownSids : \E m \in Messages :
          sweep.pc # "loop" /\ CallSend(Caller, sid, m)
    \/ \E sid \in KnownSids : sweep.pc # "loop" /\ CallStop(Caller, sid)
    \/ \E sid \in KnownSids : sweep.pc # "loop" /\ CallHistory(Caller, sid)
    \/ sweep.pc # "loop" /\ OrchListSessions(Caller)
    \/ StopAllBegin(Caller)
    \/ StopAllNext(Caller)
    \/ \E t \in DOMAIN tasks : OrchStartSession(t)
    \/ \E t \in DOMAIN tasks : OrchStartProbed(t)
    \/ \E t \in DOMAIN tasks : HttpStartCheck(t)
    \/ \E t \in DOMAIN tasks : OrchSendMessage(t)
    \/ \E t \in DOMAIN tasks : SubprocessReply(t)
    \/ \E t \in DOMAIN tasks : SubprocessTimeout(t)
    \/ \E t \in DOMAIN tasks : HttpReply(t)
    \/ \E t \in DOMAIN tasks : HttpFailure(t)
    \/ \E t \in DOMAIN tasks : OrchStopSession(t)
    \/ \E t \in DOMAIN tasks : SubprocessStopFinish(t)
    \/ \E t \in DOMAIN tasks : OrchGetSessionHistory(t)
    \/ \E sid \in DOMAIN proc : ChildReply(sid)
    \/ \E sid \in DOMAIN proc : ChildExit(sid)
    \/ \E data \in ReloadSources : UpdateConfig(data)

SpecSurface == Init /\ [][NextSurface]_vars

-----------------------------------------------------------------------------
(* Specification: construction of the orchestrator and configuration loads *)

\* Records as they appear in a JSON configuration source: the two valid and
\* the two invalid ones of the configuration test, and one without a name.
JsonEntries ==
    { ConfigEntry("valid-gemini", GEMINI_CLI, "echo", Absent),
      ConfigEntry("valid-ollama", OLLAMA, Absent, "http://localhost:11434"),
      ConfigEntry("invalid-type", "invalid-type", "echo", Absent),
      ConfigEntry("missing-required", GEMINI_CLI, Absent, Absent),
      ConfigEntry(Absent, OLLAMA, Absent, "http://localhost:11434") }

\* The values of the ProviderType members
ProviderTypeValues ==
    {GEMINI_CLI, QWEN_CODE, OLLAMA, GITHUB_COPILOT, OPENAI_COMPATIBLE, CUSTOM}

\* Records as Python code builds them, provider_type being a ProviderType
\* member as ProviderConfig declares it.
TypedEntries ==
    { [e EXCEPT !.provider_type = Member(@)] :
         e \in {x \in JsonEntries : x.provider_type \in ProviderTypeValues} }
    \cup { ConfigEntry("custom", Member(CUSTOM), "echo", Absent),
           ConfigEntry("no-endpoint", Member(OPENAI_COMPATIBLE), Absent, Absent) }

\* The configuration sources: sequences of at most MaxRecords records
Sources == UNION { [1..n -> JsonEntries] : n \in 0..MaxRecords }

\* The state of the configuration source when the orchestrator is built
Files ==
    { ConfigFile(FALSE, <<>>, "none") } \cup { ConfigFile(TRUE, d, "none") : d \in Sources }

\* ProviderConfig(**config_data) followed by _create_provider(config) on one
\* record, as the configuration test does; the task keeps the record and
\* the outcome.
Validate(t, entry) ==
    /\ tasks[t].pc = "idle"
    /\ tasks' = [tasks EXCEPT ![t] =
                    [pc |-> "idle", op |-> "create", name |-> "", sid |-> "", msg |-> "",
                     t0 |-> now, ptype |-> "", probe |-> "none", check |-> NoCheck, entry |-> entry,
                     result |-> ConstructAndCreate(entry)]]
    /\ UNCHANGED <<config, sweep, providers, objs, sessions, nextId, proc, now, pipe, cmp, calls>>

\* AIProviderOrchestrator(config_file): empty registries, then _load_providers
InitLoad ==
    /\ \E file \in Files :
          /\ providers = LoadProviders(<<>>, file).providers
          /\ config = LoadProviders(<<>>, file).config
    /\ objs = <<>>
    /\ sessions = {}
    /\ nextId = 1
    /\ proc = <<>>
    /\ tasks = (Caller :> IdleTask)
    /\ now = 0
    /\ pipe = <<>>
    /\ cmp = NoCompare
    /\ calls = <<>>
    /\ sweep = NoSweep

NextLoad ==
    \/ \E data \in Sources : UpdateConfig(data)
    \/ \E entry \in JsonEntries \cup TypedEntries : Validate(Caller, entry)

SpecLoad == InitLoad /\ [][NextLoad]_vars

-----------------------------------------------------------------------------
(* Properties *)

\* Task t has finished a call of operation op.
Finished(t, op) == tasks[t].pc = "idle" /\ tasks[t].op = op /\ tasks[t].result.kind # "none"

\* The step completes the wait of task t's send_message.
SendCompletes(t) ==
    /\ t \in DOMAIN tasks'
    /\ tasks[t].pc = "send_wait"
    /\ tasks'[t].pc = "idle"

\* The step runs the first part of task t's call of operation op.
CallRuns(t, op) ==
    /\ t \in DOMAIN tasks'
    /\ tasks[t].pc = "call"
    /\ tasks[t].op = op
    /\ tasks'[t].pc # "call"

\* The step runs a part of task t's start_session that comes before the
\* provider's start_session: the lookup, or the return of the probe.
StartRuns(t) ==
    /\ t \in DOMAIN tasks'
    /\ tasks[t].op = "start"
    /\ tasks[t].pc \in {"call", "probe"}
    /\ tasks'[t].pc # tasks[t].pc

\* C1: once stop_session(s) has returned for a session id s that
\* start_session handed out, s is not in the session registry, whatever the
\* outcome of the transport start.
C1_StoppedSessionIsRemoved ==
    \A t \in DOMAIN tasks :
        Finished(t, "stop") /\ tasks[t].sid \in DOMAIN objs
            => tasks[t].sid \notin sessions

\* C2: a successful send_message appends exactly two entries to the
\* session's log, the user entry with the sent text and then the assistant
\* entry with the returned reply, both timestamped between the start of the
\* call and its return.
C2_SendAppendsUserThenAssistant ==
    [][\A t \in DOMAIN tasks :
        SendCompletes(t) /\ tasks'[t].result.kind = "return" =>
            LET sid == tasks[t].sid
                old == objs[sid].conversation_history
                new == objs'[sid].conversation_history
                n == Len(old)
            IN /\ Len(new) = n + 2
               /\ SubSeq(new, 1, n) = old
               /\ new[n + 1].role = "user"
               /\ new[n + 1].content = tasks[t].msg
               /\ new[n + 2].role = "assistant"
               /\ new[n + 2].content = tasks'[t].result.val
               /\ new[n + 1].timestamp \in tasks[t].t0..now'
               /\ new[n + 2].timestamp \in tasks[t].t0..now'
               /\ \A other \in DOMAIN objs \ {sid} : objs'[other] = objs[other]
      ]_vars

C2_Witness ==
    \E t \in DOMAIN tasks :
        /\ Finished(t, "send")
        /\ tasks[t].result.kind = "return"
        /\ Len(objs[tasks[t].sid].conversation_history) = 4
        /\ tasks[t].t0 > 0

\* C3: a send_message on an Active session whose wait ends by the timeout
\* (always so for a subprocess whose child is running and has printed
\* nothing) raises TimeoutError, and leaves the session Active and its
\* conversation log as it was.
C3_TimeoutLeavesSessionUsable ==
    [][\A t \in DOMAIN tasks :
        LET sid == tasks[t].sid IN
        ( /\ SendCompletes(t)
          /\ objs[sid].status = ACTIVE
          /\ \/ tasks'[t].result.exc = "TimeoutError"
             \/ sid \in DOMAIN proc /\ proc[sid].alive /\ proc[sid].outq = <<>> )
        => /\ tasks'[t].result.kind = "raise"
           /\ tasks'[t].result.exc = "TimeoutError"
           /\ objs'[sid].status = ACTIVE
           /\ objs'[sid].conversation_history = objs[sid].conversation_history
      ]_vars

C3_Witness ==
    \E t \in DOMAIN tasks :
        /\ Finished(t, "send")
        /\ tasks[t].result.exc = "TimeoutError"
        /\ objs[tasks[t].sid].status = ACTIVE
        /\ Len(objs[tasks[t].sid].conversation_history) = 2

\* C4: after a subprocess send_message has raised its timeout, no worker
\* thread remains blocked reading that session's output stream.
C4_TimeoutReleasesWorker ==
    \A t \in DOMAIN tasks :
        ( /\ Finished(t, "send")
          /\ tasks[t].result.exc = "TimeoutError"
          /\ tasks[t].sid \in DOMAIN proc )
        => proc[tasks[t].sid].leaked = 0

\* C5: send_message with a session id that is not in the registry raises
\* the session-not-found error and no other; nothing is written to any
\* child, no request is awaited, and the registry and the sessions are
\* unchanged.
C5_SendUnknownSession ==
    [][\A t \in DOMAIN tasks :
        CallRuns(t, "send") /\ tasks[t].sid \notin sessions =>
            /\ tasks'[t].pc = "idle"
            /\ tasks'[t].result =
                  Raise("ValueError", "Session not found: " \o tasks[t].sid)
            /\ UNCHANGED <<sessions, objs, proc, providers>>
      ]_vars

C5_Witness ==
    \E t \in DOMAIN tasks :
        /\ Finished(t, "send")
        /\ tasks[t].sid \in DOMAIN objs \ sessions
        /\ tasks[t].result.val = "Session not found: " \o tasks[t].sid

\* C6: stop_session with a session id that is not in the registry (never
\* started, or stopped and removed) returns False without raising and
\* leaves the registry and the sessions unchanged, each time it is called.
C6_StopUnknownSession ==
    [][\A t \in DOMAIN tasks :
        CallRuns(t, "stop") /\ tasks[t].sid \notin sessions =>
            /\ tasks'[t].pc = "idle"
            /\ tasks'[t].result = Return("False")
            /\ UNCHANGED <<sessions, objs, proc, providers>>
      ]_vars

C6_Witness ==
    \E t \in DOMAIN tasks :
        /\ Finished(t, "stop")
        /\ tasks[t].result = Return("False")
        /\ tasks[t].sid \in DOMAIN objs \ sessions
        /\ objs[tasks[t].sid].status = INACTIVE

\* The send_message calls on session sid that returned, in order
Exchanges(sid) ==
    LET OnSession(c) == c.sid = sid IN SelectSeq(calls, OnSession)

\* C7: after N send_message calls on a session have returned, its history
\* has exactly 2N entries; entry 2k-1 is the user turn of the k-th call and
\* entry 2k the assistant reply of the k-th call.
C7_HistoryIsTheCallsInOrder ==
    \A sid \in sessions :
        LET h == GetSessionHistory(sid)
            cs == Exchanges(sid)
        IN /\ Len(h) = 2 * Len(cs)
           /\ \A k \in 1..Len(cs) :
                /\ h[2 * k - 1].role = "user"
                /\ h[2 * k - 1].content = cs[k].message
                /\ h[2 * k].role = "assistant"
                /\ h[2 * k].content = cs[k].response

C7_Witness ==
    \E t \in DOMAIN tasks :
        /\ Finished(t, "history")
        /\ tasks[t].result.kind = "return"
        /\ Len(Exchanges(tasks[t].sid)) = 2
        /\ Exchanges(tasks[t].sid)[1].message # Exchanges(tasks[t].sid)[2].message

\* What the coroutine of the i-th requested provider produced by itself:
\* the error it ended with, or the reply recorded in the log of the
\* session it started.
OwnOutcome(i) ==
    IF tasks[i].result.kind = "raise"
    THEN "Error: " \o tasks[i].result.val
    ELSE LET h == objs[tasks[i].sid].conversation_history IN h[Len(h)].content

\* A comparison over three distinct names has returned, and the probe of
\* the second provider had failed.
ComparedThreeSecondDown ==
    /\ cmp.pc = "returned"
    /\ cmp.status = 200
    /\ Len(cmp.providers) = 3
    /\ Cardinality({cmp.providers[i] : i \in 1..3}) = 3
    /\ tasks[2].probe = "False"

\* C8: compare over three distinct names where the probe of the second
\* fails returns a map with exactly the three names as keys; the second
\* slot holds an error string, and the first and third hold what their own
\* coroutines produced.
C8_CompareIsolatesFailure ==
    ComparedThreeSecondDown =>
        /\ DOMAIN cmp.results = {cmp.providers[i] : i \in 1..3}
        /\ cmp.results[cmp.providers[2]].response =
              "Error: Provider not available: " \o cmp.providers[2]
        /\ \A i \in {1, 3} : cmp.results[cmp.providers[i]].response = OwnOutcome(i)

C8_Witness ==
    /\ ComparedThreeSecondDown
    /\ tasks[1].result.kind = "return"
    /\ tasks[3].result.kind = "raise"
    /\ cmp.results[cmp.providers[1]].response # cmp.results[cmp.providers[3]].response

\* C9: compare answers only when every per-provider coroutine has finished
\* with a reply or a captured error, and never has more coroutines in
\* flight than providers were requested.
C9_GatherJoinsAll ==
    /\ Cardinality(DOMAIN tasks) <= Len(cmp.providers)
    /\ (cmp.pc = "returned" /\ cmp.status = 200) =>
          /\ Cardinality(DOMAIN pipe) = Len(cmp.providers)
          /\ \A t \in DOMAIN pipe :
                /\ pipe[t].stage = "done"
                /\ tasks[t].pc = "idle"
                /\ tasks[t].result.kind # "none"

C9_Witness ==
    /\ cmp.pc = "returned"
    /\ cmp.status = 200
    /\ Len(cmp.providers) = 3
    /\ \E t \in DOMAIN pipe : tasks[t].op = "stop" /\ tasks[t].result = Return("True")
    /\ \E t \in DOMAIN pipe : tasks[t].result.kind = "raise"

\* C10: start_session raises the provider-not-found error for a name that
\* is not registered and the provider-not-available error when the probe
\* answers false; in both cases no session object is created (the
\* provider's start_session is not reached) and the registry is unchanged.
C10_StartRefused ==
    [][\A t \in DOMAIN tasks :
        StartRuns(t) =>
            LET name == tasks[t].name
                unknown == name \notin DOMAIN providers
                down == ~unknown /\ tasks'[t].probe = "False"
            IN /\ unknown => tasks'[t].result =
                                Raise("ValueError", "Provider not found: " \o name)
               /\ down => tasks'[t].result =
                             Raise("RuntimeError", "Provider not available: " \o name)
               /\ (unknown \/ down) =>
                     /\ tasks'[t].pc = "idle"
                     /\ UNCHANGED <<objs, sessions, nextId, proc>>
      ]_vars

C10_Witness ==
    \E t \in DOMAIN tasks :
        /\ Finished(t, "start")
        /\ tasks[t].probe = "False"
        /\ tasks[t].result.exc = "RuntimeError"
        /\ sessions # {}

\* The step completes task t's start_session.
StartCompletes(t) ==
    /\ t \in DOMAIN tasks'
    /\ tasks[t].op = "start"
    /\ tasks[t].pc \in {"call", "probe", "start_check"}
    /\ tasks'[t].pc = "idle"

\* The session object a completing start_session of task t is about
StartedBy(t) == IF tasks[t].pc = "start_check" THEN tasks[t].sid ELSE SidOf(nextId)

\* C11: whenever start_session returns an id, the session registered under
\* it is Active; and when the transport start failed (the session object
\* was marked Error) no session is added to the registry.
C11_StartRegistersOnlyActive ==
    [][\A t \in DOMAIN tasks :
        StartCompletes(t) =>
            /\ tasks'[t].result.kind = "return" =>
                  /\ tasks'[t].result.val \in sessions'
                  /\ objs'[tasks'[t].result.val].status = ACTIVE
            /\ ( /\ StartedBy(t) \in DOMAIN objs'
                 /\ objs'[StartedBy(t)].status = ERROR ) => sessions' = sessions
      ]_vars

\* C12: for every provider variant, send_message on a session whose status
\* is not Active raises the session-not-active error at once: nothing is
\* written to a child, no request is awaited, and the session and its log
\* are unchanged.
C12_NotActiveIsRefused ==
    [][\A t \in DOMAIN tasks :
        CallRuns(t, "provider_send") /\ objs[tasks[t].sid].status # ACTIVE =>
            /\ tasks'[t].pc = "idle"
            /\ tasks'[t].result = Raise("RuntimeError", "Session is not active")
            /\ UNCHANGED <<objs, proc>>
      ]_vars

\* C13: in every reachable state, also after the configuration was loaded
\* again, every session in the session registry names an owning provider
\* that is present in the provider registry.
C13_SessionProviderRegistered ==
    \A sid \in sessions : objs[sid].provider \in DOMAIN providers

C13_Witness ==
    /\ config.outcome \in {"loaded", "failed"}
    /\ \E sid \in sessions :
          /\ objs[sid].conversation_history # <<>>
          /\ \A i \in DOMAIN config.data : config.data[i].name # objs[sid].provider

\* The sessions stop_all_sessions visited for which stop_session returned r
VisitedWith(r) == {sweep.visited[i].sid : i \in {j \in DOMAIN sweep.visited : sweep.visited[j].ok = r}}

\* C14: stop_all_sessions never ends by an exception when nothing else
\* stops sessions meanwhile; when it has returned, it has called
\* stop_session once for every session that was registered when it was
\* called, also after one of them failed to stop; the count it returns is
\* the number of sessions it removed from the registry; and the sessions
\* that failed to stop are still registered.
C14_StopAllVisitsAllAndCounts ==
    /\ sweep.pc # "raised"
    /\ sweep.pc = "returned" =>
          /\ Len(sweep.visited) = Cardinality(sweep.snapshot)
          /\ {sweep.visited[i].sid : i \in DOMAIN sweep.visited} = sweep.snapshot
          /\ sweep.stopped_count = Cardinality(sweep.snapshot \ sessions)
          /\ VisitedWith("True") = sweep.snapshot \ sessions
          /\ VisitedWith("False") = sweep.snapshot \cap sessions

C14_Witness ==
    /\ sweep.pc = "returned"
    /\ Len(sweep.visited) = 3
    /\ sweep.visited[1].ok = "False"
    /\ sweep.visited[2].ok = "True"
    /\ sweep.visited[3].ok = "True"
    /\ sweep.stopped_count = 2

\* The step completes task t's stop_session.
StopCompletes(t) ==
    /\ t \in DOMAIN tasks'
    /\ tasks[t].op = "stop"
    /\ tasks[t].pc \in {"call", "stop_sleep"}
    /\ tasks'[t].pc = "idle"

\* The provider's stop_session reported success in this step: each of the
\* four sets the status to INACTIVE just before its return True, and
\* nowhere else.
ProviderStopped(sid) == objs[sid].status # INACTIVE /\ objs'[sid].status = INACTIVE

\* C15: stop_session on a registered session returns True exactly when the
\* owning provider reported success, and the session is removed from the
\* registry in exactly that case; otherwise it returns False and the
\* session stays registered.
C15_StopReturnsProviderOutcome ==
    [][\A t \in DOMAIN tasks :
        StopCompletes(t) /\ tasks[t].sid \in sessions =>
            LET sid == tasks[t].sid IN
            /\ (tasks'[t].result = Return("True")) <=> ProviderStopped(sid)
            /\ (sid \notin sessions') <=> ProviderStopped(sid)
            /\ ~ProviderStopped(sid) => tasks'[t].result = Return("False")
            /\ sessions' \ {sid} = sessions \ {sid}
      ]_vars

C15_Witness ==
    \E t \in DOMAIN tasks :
        /\ Finished(t, "stop")
        /\ tasks[t].result = Return("False")
        /\ tasks[t].sid \in sessions
        /\ objs[tasks[t].sid].status = ACTIVE
        /\ objs[tasks[t].sid].conversation_history # <<>>

\* C16: stop_session on a registered session whose status is Active or
\* Error moves it to Inactive and removes it from the registry; and a
\* session that is Inactive never changes status again.
C16_AnySessionCanBeStopped ==
    [][ /\ \A t \in DOMAIN tasks :
              ( /\ StopCompletes(t)
                /\ tasks[t].sid \in sessions
                /\ objs[tasks[t].sid].status \in {ACTIVE, ERROR} )
              => /\ objs'[tasks[t].sid].status = INACTIVE
                 /\ tasks[t].sid \notin sessions'
        /\ \A sid \in DOMAIN objs :
              objs[sid].status = INACTIVE => objs'[sid].status = INACTIVE
      ]_vars

\* The step ends task t's send_message on an Active session by an
\* exception other than a timeout.
SendFailsInTransport(t) ==
    /\ t \in DOMAIN tasks'
    /\ tasks[t].op = "send"
    /\ tasks[t].pc \in {"call", "send_wait"}
    /\ tasks[t].sid \in sessions
    /\ objs[tasks[t].sid].status = ACTIVE
    /\ tasks'[t].pc = "idle"
    /\ tasks'[t].result.kind = "raise"
    /\ tasks'[t].result.exc # "TimeoutError"

\* C17: when send_message on an Active session fails with a transport
\* error other than a timeout (a non-2xx HTTP status, a broken pipe, a
\* failed connection), the session's status becomes Error.
C17_TransportErrorMarksError ==
    [][\A t \in DOMAIN tasks :
        SendFailsInTransport(t) => objs'[tasks[t].sid].status = ERROR
      ]_vars

\* The provider type a record names, by value or by member
TypeValue(ptype) ==
    IF \E v \in ProviderTypeValues : ptype = Member(v)
    THEN CHOOSE v \in ProviderTypeValues : ptype = Member(v)
    ELSE ptype

\* The record lacks the field its transport kind requires: the command of a
\* subprocess kind, the endpoint of an HTTP kind.
LacksRequired(e) ==
    \/ TypeValue(e.provider_type) \in {GEMINI_CLI, GITHUB_COPILOT} /\ e.command = Absent
    \/ TypeValue(e.provider_type) \in {OLLAMA, OPENAI_COMPATIBLE} /\ e.api_endpoint = Absent

\* The record names a kind outside the enumeration, or lacks what its kind requires.
Violating(e) ==
    /\ e.provider_type # Absent
    /\ TypeValue(e.provider_type) \notin ProviderTypeValues \/ LacksRequired(e)

\* The record is well formed and as a JSON source carries it: a name, the
\* string value of a kind that has a provider class, and the field that
\* kind requires.
WellFormedJson(e) ==
    /\ e.name # Absent
    /\ ~e.extra
    /\ e.provider_type \in {GEMINI_CLI, OLLAMA, GITHUB_COPILOT, OPENAI_COMPATIBLE}
    /\ ~LacksRequired(e)

\* The configuration source has been read by _load_providers.
Loaded == config.outcome \in {"loaded", "failed"}

\* C18: a config that lacks the field its kind requires, or whose kind is
\* not an enumerated one, is rejected: constructing it and creating its
\* provider raises, and after a load no provider is registered under its name.
C18_InvalidConfigRejected ==
    /\ \A t \in DOMAIN tasks :
          Finished(t, "create") /\ Violating(tasks[t].entry)
             => tasks[t].result.kind = "raise"
    /\ Loaded =>
          \A i \in DOMAIN config.data :
             ( config.data[i].name # Absent /\ Violating(config.data[i]) )
                => config.data[i].name \notin ListProviders

\* C19: a well-formed record with its provider_type given by string value
\* is accepted: creating its provider returns the provider class of that
\* type, and after a load of a source of such records list_providers
\* returns exactly their names.
C19_WellFormedRecordAccepted ==
    /\ \A t \in DOMAIN tasks :
          Finished(t, "create") /\ WellFormedJson(tasks[t].entry)
             => tasks[t].result = Return(tasks[t].entry.provider_type)
    /\ ( /\ Loaded
         /\ \A i \in DOMAIN config.data : WellFormedJson(config.data[i]) )
       => ListProviders = {config.data[i].name : i \in DOMAIN config.data}

\* C20: after a load of a source that has a malformed or incomplete record,
\* every well-formed record of the source, before or after the bad one, is
\* registered as a provider.
C20_BadEntryFailsAlone ==
    ( /\ Loaded
      /\ \E i \in DOMAIN config.data : ~WellFormedJson(config.data[i]) )
    => \A i \in DOMAIN config.data :
          WellFormedJson(config.data[i]) => config.data[i].name \in ListProviders

\* C21: a subprocess send_message whose text contains a line break is
\* rejected: nothing is written to the child, the session's log and status
\* are unchanged; and no call writes more than one line to a child.
C21_MultiLineRejected ==
    [][\A t \in DOMAIN tasks :
        LET sid == tasks[t].sid IN
        CallRuns(t, "provider_send") /\ sid \in DOMAIN proc =>
            /\ Len(proc'[sid].inq) <= Len(proc[sid].inq) + 1
            /\ HasNewline(tasks[t].msg) =>
                  /\ tasks'[t].result.kind = "raise"
                  /\ proc' = proc
                  /\ objs' = objs
      ]_vars

\* C22: an Ollama start_session yields an Active session only if the
\* configured model is in the catalog the model check fetched; when the
\* model is absent from the catalog, the catalog cannot be fetched, or no
\* model is configured, the start fails and no session is registered.
C22_OllamaNeedsModelInCatalog ==
    \A t \in DOMAIN tasks :
        LET name == tasks[t].name
            r == tasks[t].result
            listed == /\ ModelOf(name) # None
                      /\ tasks[t].check.status = 200
                      /\ ModelOf(name) \in tasks[t].check.models
        IN Finished(t, "start") /\ tasks[t].ptype = OLLAMA =>
              /\ r.kind = "return" =>
                    /\ listed
                    /\ r.val \in sessions
                    /\ objs[r.val].status = ACTIVE
              /\ tasks[t].probe = "True" /\ ~listed =>
                    /\ r.kind = "raise"
                    /\ tasks[t].sid \notin sessions

C22_Witness ==
    \E t \in DOMAIN tasks :
        /\ Finished(t, "start")
        /\ tasks[t].name = "ollama"
        /\ tasks[t].check = CheckResponse(200, {"mistral"})
        /\ tasks[t].result.kind = "raise"
        /\ tasks[t].sid \in DOMAIN objs
        /\ tasks[t].sid \notin sessions

\* The probe of a provider fails: the executable is missing, exits with
\* a code other than 0, the endpoint is unreachable or answers with a
\* status other than 200, the probe times out, or the configuration lacks
\* what the probe needs.
ProbeFails(name, ptype, outcome) ==
    \/ outcome \notin {"exit0", "200"}
    \/ ptype = GEMINI_CLI /\ CommandOf(name) = None
    \/ ~IsSubprocess(ptype) /\ EndpointOf(name) = None

\* The exceptions a probe can meet
ProbeExceptions == {"TypeError", "FileNotFoundError", "TimeoutExpired", "ConnectionError", "Timeout"}

\* C23: is_available never raises, for any provider variant and any
\* configuration: every failure of the probe yields False; and the call
\* changes neither the provider registry nor the session registry.
C23_IsAvailableNeverRaises ==
    [][\A t \in DOMAIN tasks :
        /\ (t \in DOMAIN tasks' /\ tasks'[t] # tasks[t] /\ tasks'[t].op = "is_available") =>
              /\ tasks'[t].result.kind = "return"
              /\ tasks'[t].result.val \in {"True", "False"}
              /\ ProbeFails(tasks'[t].name, tasks'[t].ptype, tasks'[t].outcome) =>
                    tasks'[t].result.val = "False"
              /\ UNCHANGED <<providers, sessions, objs, proc>>
        /\ (StartRuns(t) /\ tasks[t].pc = "probe") =>
              tasks'[t].result.exc \notin ProbeExceptions
      ]_vars

C23_Witness ==
    \E t \in DOMAIN tasks :
        /\ Finished(t, "is_available")
        /\ tasks[t].name = "gemini"
        /\ tasks[t].outcome = "TimeoutExpired"
        /\ tasks[t].result = Return("False")
        /\ sessions # {}

\* The next step of the pipeline that task u runs
PipelineStep(u) ==
    \/ GetProviderResponse(u)
    \/ OrchStartSession(u)
    \/ OrchStartProbed(u)
    \/ HttpStartCheck(u)
    \/ OrchSendMessage(u)
    \/ SubprocessReply(u)
    \/ SubprocessTimeout(u)
    \/ HttpReply(u)
    \/ HttpFailure(u)
    \/ OrchStopSession(u)
    \/ SubprocessStopFinish(u)

\* Task t is waiting on its transport: the availability probe, the start
\* check, the reply, or the stop.
WaitsOnTransport(t) == tasks[t].pc \in {"probe", "start_check", "send_wait", "stop_sleep"}

\* C24: a comparison does not serialize its pipelines: in any state where
\* one pipeline is waiting on its transport, every other pipeline that has
\* not finished can take its next step.
C24_CompareNotSerialized ==
    \A t \in DOMAIN pipe : \A u \in DOMAIN pipe :
        (t # u /\ cmp.pc = "gather" /\ WaitsOnTransport(t) /\ pipe[u].stage # "done") =>
            ENABLED PipelineStep(u)

\* A step of the event loop that runs a comparison: a coroutine runs up to
\* its next suspension, a wait ends with its answer or at its deadline, or
\* run_until_complete returns.
LoopStep == CompareReturn \/ \E t \in DOMAIN tasks : PipelineStep(t)

\* The comparison with a loop that keeps running what is ready and whose
\* deadlines (the 5 seconds of a probe or a check, config.timeout of a
\* reply, the 1 second sleep of a stop) expire.  Nothing is assumed of the
\* children and the servers.
SpecCompareFair == SpecCompare /\ WF_vars(LoopStep)

\* C25: under fair scheduling every comparison returns, each of its
\* pipelines having completed, even when a transport never responds.
C25_CompareReturns ==
    (cmp.pc = "gather") ~>
        (cmp.pc = "returned" /\ \A t \in DOMAIN pipe : pipe[t].stage = "done")

C25_Witness ==
    /\ cmp.pc = "returned"
    /\ \E t \in DOMAIN pipe :
          /\ pipe[t].out = "Error: AI response timeout"
          /\ proc[tasks[t].sid].outq = <<>>
          /\ proc[tasks[t].sid].inq # <<>>

\* C26: when two stop_session calls for the same registered subprocess
\* session overlap, neither raises, exactly one returns True, and the
\* session is removed from the registry once.
C26_OverlappingStops ==
    \A t \in DOMAIN tasks : \A u \in DOMAIN tasks :
        ( /\ t # u
          /\ Finished(t, "stop") /\ Finished(u, "stop")
          /\ tasks[t].sid = tasks[u].sid
          /\ tasks[t].sid \in DOMAIN proc
          /\ tasks[t].sid \notin sessions ) =>
            /\ tasks[t].result.kind = "return"
            /\ tasks[u].result.kind = "return"
            /\ (tasks[t].result.val = "True") # (tasks[u].result.val = "True")

NeverStarted(sid) ==
    /\ sid \in DOMAIN objs
    /\ sid \notin sessions
    /\ ~objs[sid].process
    /\ sid \notin DOMAIN proc

\* C28: for every provider variant, send_message handed a session object
\* that was never started (status Active, no transport handle, not in the
\* registry) fails with an error and appends nothing to the object's log.
C28_NeverStartedSendFails ==
    \A t \in DOMAIN tasks :
        (Finished(t, "provider_send") /\ tasks[t].sid = FakeSid /\ NeverStarted(FakeSid)) =>
            /\ tasks[t].result.kind = "raise"
            /\ objs[FakeSid].conversation_history = <<>>

\* C29: for every provider variant, stop_session handed a session object
\* that was never started raises an error; it does not return a boolean.
C29_NeverStartedStopRaises ==
    \A t \in DOMAIN tasks :
        (Finished(t, "provider_stop") /\ tasks[t].sid = FakeSid /\ NeverStarted(FakeSid)) =>
            tasks[t].result.kind = "raise"

\* C30: for every provider whose is_available() answered True, the
\* start_session that follows returns a session with a non-empty id whose
\* status is Active.
C30_AvailableProviderStarts ==
    \A t \in DOMAIN tasks :
        (Finished(t, "start") /\ tasks[t].probe = "True") =>
            /\ tasks[t].result.kind = "return"
            /\ tasks[t].result.val # ""
            /\ tasks[t].result.val \in DOMAIN objs
            /\ objs[tasks[t].result.val].status = ACTIVE

\* C31: stop_session on a subprocess session with a live child sends the
\* terminate signal first, waits, and sends the kill only if the child has
\* not exited after the wait; whenever it returns True the session is
\* Inactive and the child no longer runs, and whenever it returns False
\* the session's status is unchanged.
C31_TerminateThenKill ==
    [][\A t \in DOMAIN tasks :
        LET sid == tasks[t].sid IN
        /\ ( /\ CallRuns(t, "stop")
             /\ sid \in sessions
             /\ sid \in DOMAIN proc
             /\ proc[sid].alive ) =>
               \/ /\ tasks'[t].pc = "stop_sleep"
                  /\ proc'[sid] = [proc[sid] EXCEPT !.signal = "terminate"]
                  /\ objs' = objs
               \/ /\ tasks'[t].result = Return("False")
                  /\ proc' = proc
                  /\ objs' = objs
        /\ ( /\ t \in DOMAIN tasks'
             /\ tasks[t].pc = "stop_sleep"
             /\ tasks'[t].pc = "idle" ) =>
               /\ proc'[sid].signal # proc[sid].signal =>
                     /\ proc'[sid].signal = "kill"
                     /\ proc[sid].signal = "terminate"
                     /\ proc[sid].alive
               /\ tasks'[t].result = Return("True") =>
                     /\ objs'[sid].status = INACTIVE
                     /\ ~proc'[sid].alive
                     /\ proc[sid].alive => proc'[sid].signal = "kill"
               /\ tasks'[t].result = Return("False") =>
                     objs'[sid].status = objs[sid].status
      ]_vars

C31_Witness ==
    \E t \in DOMAIN tasks :
        /\ Finished(t, "stop")
        /\ tasks[t].result = Return("True")
        /\ tasks[t].sid \in DOMAIN proc
        /\ proc[tasks[t].sid].signal = "kill"
        /\ objs[tasks[t].sid].status = INACTIVE

\* C32: one send_message makes at most one transport round trip: on a
\* subprocess session it writes one line to the child and reads one line
\* back, it never repeats the exchange after a failure, and the failure
\* is what the caller receives.
C32_OneRoundTrip ==
    [][\A t \in DOMAIN tasks :
        LET sid == tasks[t].sid IN
        /\ ( /\ CallRuns(t, "provider_send")
             /\ sid \in DOMAIN proc ) =>
               /\ Len(proc'[sid].inq) - Len(proc[sid].inq) \in {0, 1}
               /\ proc'[sid].outq = proc[sid].outq
               /\ tasks'[t].pc \in {"send_wait", "idle"}
               /\ tasks'[t].pc = "idle" => tasks'[t].result.kind = "raise"
        /\ ( /\ SendCompletes(t)
             /\ tasks[t].op = "provider_send"
             /\ sid \in DOMAIN proc ) =>
               /\ proc'[sid].inq = proc[sid].inq
               /\ Len(proc[sid].outq) - Len(proc'[sid].outq) \in {0, 1}
               /\ tasks'[t].result.kind \in {"return", "raise"}
      ]_vars

\* C33: the provider registry is changed only by loading or reloading the
\* configuration: every step of start_session, send_message, stop_session,
\* stop_all_sessions, list_sessions and get_session_history leaves the
\* registry's names and their configurations as they were.
OperationStep ==
    \/ tasks' # tasks
    \/ sweep' # sweep
    \/ objs' # objs
    \/ sessions' # sessions
    \/ proc' # proc
    \/ pipe' # pipe
    \/ cmp' # cmp

C33_OperationsKeepRegistry ==
    [][OperationStep => providers' = providers /\ config' = config]_vars

C33_Witness ==
    /\ sweep.pc = "returned"
    /\ sweep.stopped_count > 0
    /\ Finished(Caller, "list_sessions")
    /\ providers = DefaultRegistry
    /\ calls # <<>>

\* C34: stop_all_sessions tolerates a concurrent removal: when another
\* stop_session removes a session of the snapshot before or while
\* stop_all_sessions stops it, stop_all_sessions does not raise, visits
\* every session of the snapshot, and does not count a session that the
\* other call removed.
C34_StopAllToleratesRemoval ==
    /\ sweep.pc # "raised"
    /\ sweep.pc = "returned" =>
          /\ {sweep.visited[i].sid : i \in DOMAIN sweep.visited} = sweep.snapshot
          /\ \A i \in DOMAIN sweep.visited :
                ( /\ Finished(Other, "stop")
                  /\ tasks[Other].sid = sweep.visited[i].sid
                  /\ tasks[Other].result = Return("True") ) =>
                      sweep.visited[i].ok # "True"

\* C35: once compare has returned, the session registry holds none of the
\* sessions its pipelines started, whether the pipeline's send succeeded,
\* its send failed, or its session came back in the Error state.
C35_CompareLeavesNoSession ==
    cmp.pc = "returned" => sessions = {}

\* C36: every session in the registry is Active or Error: no registered
\* session is ever Starting, Terminating or Inactive, however the steps of
\* start_session, send_message and stop_session interleave.
C36_RegisteredActiveOrError ==
    \A sid \in sessions : objs[sid].status \in {ACTIVE, ERROR}

C36_Witness ==
    \E sid \in sessions :
        /\ objs[sid].status = ACTIVE
        /\ tasks[Caller].pc = "stop_sleep" /\ tasks[Caller].sid = sid
        /\ tasks[Other].pc = "send_wait" /\ tasks[Other].sid = sid

\* C37: every session's log has an even number of entries that alternate
\* strictly, user then assistant, also when several send_message calls on
\* the same session are in flight at once on one event loop.
C37_LogAlternates ==
    \A sid \in DOMAIN objs :
        LET h == objs[sid].conversation_history IN
        /\ Len(h) % 2 = 0
        /\ \A i \in DOMAIN h :
              h[i].role = IF i % 2 = 1 THEN "user" ELSE "assistant"

\* Two sends were in flight together on a subprocess session none of whose
\* sends timed out: the replies came back crossed.
C37_Witness ==
    \E sid \in DOMAIN proc :
        LET h == objs[sid].conversation_history IN
        /\ proc[sid].leaked = 0
        /\ Len(h) = 4
        /\ h[1].content # h[3].content
        /\ h[2].content = Strip(ChildAnswer(h[3].content \o "\n"))
        /\ h[4].content = Strip(ChildAnswer(h[1].content \o "\n"))

\* C38: on a subprocess session every assistant entry of the log is the
\* child's reply to the user entry before it; in particular, after a send
\* has timed out, no later send records or returns the child's late reply
\* to the timed-out message.  The formula states the second half: no
\* assistant entry is the child's answer to a message other than the one
\* of the user entry before it.
C38_ReplyBelongsToMessage ==
    \A sid \in DOMAIN proc :
        LET h == objs[sid].conversation_history IN
        \A i \in DOMAIN h :
            h[i].role = "assistant" /\ i > 1 =>
                \A m \in Messages \ {h[i - 1].content} :
                    h[i].content # Strip(ChildAnswer(m \o "\n"))

\* C39: a send_message that fails (session not active, timeout, transport
\* error, non-2xx answer, unknown session) leaves the log and the
\* last-activity time of every session as they were.
SendFails(t) ==
    /\ t \in DOMAIN tasks'
    /\ tasks[t].op \in {"send", "provider_send"}
    /\ tasks[t].pc \in {"call", "send_wait"}
    /\ tasks'[t].pc = "idle"
    /\ tasks'[t].result.kind = "raise"

C39_FailedSendLeavesSessions ==
    [][\A t \in DOMAIN tasks :
        SendFails(t) =>
            /\ DOMAIN objs' = DOMAIN objs
            /\ \A sid \in DOMAIN objs :
                  /\ objs'[sid].conversation_history = objs[sid].conversation_history
                  /\ objs'[sid].last_activity = objs[sid].last_activity
      ]_vars

C39_Witness ==
    \E t \in DOMAIN tasks :
        /\ Finished(t, "send")
        /\ tasks[t].result.kind = "raise"
        /\ tasks[t].result.exc = "TimeoutError"
        /\ tasks[t].sid \in sessions
        /\ tasks[t].sid \notin DOMAIN proc
        /\ objs[tasks[t].sid].conversation_history # <<>>
        /\ objs[tasks[t].sid].last_activity < now

====
